---- MODULE Spec2Model ----
(***************************************************************************)
(* Model of the toolbox-core tool pipeline: the client builds a Tool       *)
(* Instance from a manifest entry (client.ts), the instance is derived by  *)
(* bindParams / addAuthTokenGetters and invoked (tool.ts), bound values    *)
(* and token getters are resolved on every call (utils.ts).                *)
(*                                                                         *)
(* JavaScript objects whose key order is observable (Record<...> iterated  *)
(* with Object.keys / Object.entries) are sequences of [k, v] entries in   *)
(* insertion order.  The JSON body and the header object of a request are  *)
(* functions from key to value.                                            *)
(***************************************************************************)
EXTENDS Integers, Sequences, FiniteSets, TLC

\* ---------------------------------------------------------------- bounds
\* number of Tool Instances the caller holds at once
MaxTools == 2
\* number of calls of getGoogleIdToken
MaxCalls == 3
\* number of distinct results a stateful user function cycles through
FnPeriod == 2

\* ---------------------------------------------------------------- values
\* a JavaScript value: the string with decimal digits v, the number v,
\* null or undefined
Str(n) == [t |-> "string", v |-> n]
Num(n) == [t |-> "number", v |-> n]
NULL == [t |-> "null", v |-> 0]
UNDEF == [t |-> "undefined", v |-> 0]

\* BoundValue (utils.ts): a literal, or a zero-argument function
Lit(x) == [kind |-> "lit", val |-> x, fn |-> "none"]
Fn(f) == [kind |-> "fn", val |-> UNDEF, fn |-> f]

\* the user functions of the model: "ctr" returns a number, "tok" a string;
\* both return their internal counter and advance it
Fns == {"ctr", "tok"}

FnReturn(f, n) == IF f = "ctr" THEN Num(n) ELSE Str(n)

\* ---------------------------------------------------------- ordered maps
Entry(key, val) == [k |-> key, v |-> val]

Keys(m) == [i \in DOMAIN m |-> m[i].k]

KeySet(m) == {m[i].k : i \in DOMAIN m}

Range(s) == {s[i] : i \in DOMAIN s}

Get(m, key) == (CHOOSE e \in Range(m) : e.k = key).v

\* {...a, ...b}: the keys of a keep their place and take b's value when b
\* has the key, the other keys of b follow in b's order
Spread(a, b) ==
  [i \in DOMAIN a |->
     IF a[i].k \in KeySet(b) THEN Entry(a[i].k, Get(b, a[i].k)) ELSE a[i]]
  \o SelectSeq(b, LAMBDA e : e.k \notin KeySet(a))

\* Object.fromEntries / a plain object seen as key -> value
AsObject(m) == [key \in KeySet(m) |-> Get(m, key)]

\* keys are unique in an object
IsMap(m) == \A i, j \in DOMAIN m : m[i].k = m[j].k => i = j

\* [...new Set(s)]: first occurrences, in order
RECURSIVE Dedupe(_)
Dedupe(s) ==
  IF s = <<>> THEN <<>>
  ELSE LET r == Dedupe(SubSeq(s, 1, Len(s) - 1))
           x == s[Len(s)]
       IN IF x \in Range(r) THEN r ELSE Append(r, x)

RECURSIVE Flatten(_)
Flatten(ss) == IF ss = <<>> THEN <<>> ELSE Head(ss) \o Flatten(Tail(ss))

\* ---------------------------------------------------- structured values
\* a boolean, and the arrays and objects of the model: each has a number,
\* Items and Props give what it holds
Bool == [t |-> "boolean", v |-> 1]

ArrOf(n) == [t |-> "array", v |-> n]

ObjOf(n) == [t |-> "object", v |-> n]

\* [] and {}
Arr == ArrOf(0)

Obj == ObjOf(0)

\* [], ["3"], ["3", 5]
Items(x) ==
  CASE x.v = 0 -> <<>>
    [] x.v = 1 -> <<Str(3)>>
    [] x.v = 2 -> <<Str(3), Num(5)>>

\* {}, {a: "3"}, {a: 5}, {a: "3", b: 5}, {a: {}}, {a: {a: "3"}}
Props(x) ==
  CASE x.v = 0 -> <<>>
    [] x.v = 1 -> <<Entry("a", Str(3))>>
    [] x.v = 2 -> <<Entry("a", Num(5))>>
    [] x.v = 3 -> <<Entry("a", Str(3)), Entry("b", Num(5))>>
    [] x.v = 4 -> <<Entry("a", Obj)>>
    [] x.v = 5 -> <<Entry("a", ObjOf(1))>>

Arrays == {ArrOf(n) : n \in 0..2}

Objects == {ObjOf(n) : n \in 0..5}

\* the array with these items, the object with these properties
ArrayWith(items) == CHOOSE x \in Arrays : Items(x) = items

ObjectWith(props) == CHOOSE x \in Objects : Props(x) = props

\* the key of the i-th item in the path of an issue
IndexName(i) == <<"0", "1", "2">>[i]

\* ------------------------------------------------------------- utils.ts
\* a variant that calls no function and gives the value of its first call
ResolveValueCached(value, st) ==
  [val |-> IF value.kind = "fn" THEN FnReturn(value.fn, 0) ELSE value.val,
   st |-> st, called |-> <<>>]

\* resolveValue: a function is called (its counter advances), anything
\* else is returned as it is.  st is the state of the user functions.
ResolveValue(value, st) ==
  IF value.kind = "fn"
  THEN [val |-> FnReturn(value.fn, st[value.fn]),
        st |-> [st EXCEPT ![value.fn] = (st[value.fn] + 1) % FnPeriod],
        called |-> <<value.fn>>]
  ELSE [val |-> value.val, st |-> st, called |-> <<>>]

\* a variant that takes the first matching service only
MatchedAuthnServicesFirst(services, available) ==
  LET matched == SelectSeq(services, LAMBDA s : s \in available)
  IN IF matched = <<>> THEN <<>> ELSE <<Head(matched)>>

\* identifyAuthRequirements
MatchedAuthnServices(services, available) ==
  SelectSeq(services, LAMBDA s : s \in available)

\* a variant that keeps every authz token in the remaining list
IdentifyAuthRequirementsKeepingAuthz(reqAuthnParams, reqAuthzTokens, authServiceNames) ==
  LET availableServices == Range(authServiceNames)
      matched(e) == MatchedAuthnServices(e.v, availableServices)
  IN [requiredAuthnParams |->
        SelectSeq(reqAuthnParams, LAMBDA e : matched(e) = <<>>),
      remainingAuthzTokens |-> reqAuthzTokens,
      usedServices |->
        UNION {Range(matched(reqAuthnParams[i])) : i \in DOMAIN reqAuthnParams}
        \cup (Range(reqAuthzTokens) \cap availableServices)]

IdentifyAuthRequirements(reqAuthnParams, reqAuthzTokens, authServiceNames) ==
  LET availableServices == Range(authServiceNames)
      matched(e) == MatchedAuthnServices(e.v, availableServices)
  IN [requiredAuthnParams |->
        SelectSeq(reqAuthnParams, LAMBDA e : matched(e) = <<>>),
      remainingAuthzTokens |->
        SelectSeq(reqAuthzTokens, LAMBDA t : t \notin availableServices),
      usedServices |->
        UNION {Range(matched(reqAuthnParams[i])) : i \in DOMAIN reqAuthnParams}
        \cup (Range(reqAuthzTokens) \cap availableServices)]

\* ----------------------------------------------------------- protocol.ts
\* TypeSchema: the type, the items of an array, the additionalProperties
\* of an object (absent, true, false, or a type)
NoAdditional == [is |-> "absent", schema |-> <<>>]

Additional(b) == [is |-> b, schema |-> <<>>]

AdditionalOf(typeSchema) == [is |-> "schema", schema |-> <<typeSchema>>]

TypeSchema(type, items, additionalProperties) ==
  [type |-> type, items |-> items, additionalProperties |-> additionalProperties]

Primitive(type) == TypeSchema(type, <<>>, NoAdditional)

ArrayType(items) == TypeSchema("array", <<items>>, NoAdditional)

ObjectType(additionalProperties) == TypeSchema("object", <<>>, additionalProperties)

\* a validator: the type a value must have, what it is made with (z.array,
\* z.record, z.object), the validator of its elements, and nullish()
Zod(type, of, element) ==
  [type |-> type, of |-> of, element |-> element, nullish |-> FALSE]

\* buildZodShapeFromTypeSchema (z.number().int() reports a value that is
\* not a number as "Expected number"); the validator of a type the switch
\* has no case for stands for the error the default throws
RECURSIVE BuildZodShapeFromTypeSchema(_)
BuildZodShapeFromTypeSchema(typeSchema) ==
  CASE typeSchema.type = "string" -> Zod("string", "", <<>>)
    [] typeSchema.type \in {"integer", "float"} -> Zod("number", "", <<>>)
    [] typeSchema.type = "boolean" -> Zod("boolean", "", <<>>)
    [] typeSchema.type = "array" ->
         Zod("array", "array",
             <<BuildZodShapeFromTypeSchema(typeSchema.items[1])>>)
    [] typeSchema.type = "object" ->
         IF typeSchema.additionalProperties.is = "schema"
         THEN Zod("object", "record",
                  <<BuildZodShapeFromTypeSchema(
                      typeSchema.additionalProperties.schema[1])>>)
         ELSE IF typeSchema.additionalProperties.is = "false"
         THEN Zod("object", "object", <<>>)
         ELSE Zod("object", "record", <<Zod("any", "", <<>>)>>)
    [] OTHER -> Zod(typeSchema.type, "throws", <<>>)

\* the default of the switch was taken for the type or for a type in it:
\* throw new Error(`Unknown parameter type: ...`)
RECURSIVE ZodThrows(_)
ZodThrows(schema) ==
  \/ schema.of = "throws"
  \/ schema.element # <<>> /\ ZodThrows(schema.element[1])

\* a variant that makes every parameter optional that is not required: true
BuildZodShapeFromParamFalsy(p) ==
  [BuildZodShapeFromTypeSchema(p) EXCEPT !.nullish = (p.required # "true")]

\* buildZodShapeFromParam: required === false gives schema.nullish()
BuildZodShapeFromParam(p) ==
  [BuildZodShapeFromTypeSchema(p) EXCEPT !.nullish = (p.required = "false")]

\* createZodSchemaFromParams: z.object(shape).strict()
CreateZodSchemaFromParams(params) ==
  [i \in DOMAIN params |-> Entry(params[i].name, BuildZodShapeFromParam(params[i]))]

\* ZodObject.omit
Omit(shape, keys) == SelectSeq(shape, LAMBDA e : e.k \notin keys)

Issue(path, code, expected, received, keys) ==
  [path |-> path, code |-> code, expected |-> expected,
   received |-> received, keys |-> keys]

\* ZodType.parse: the issues of a value, path being where the value is
\* (joined with '.' as the error message joins it).  z.any() accepts every
\* value, nullish() accepts null and undefined, a value of another type is
\* an invalid_type issue, the items of an array and the properties of a
\* record are checked with the element validator, z.object({}) looks at no
\* property
RECURSIVE ZodIssues(_, _, _)
ZodIssues(schema, val, path) ==
  IF schema.type = "any" THEN {}
  ELSE IF val.t \in {"null", "undefined"} /\ schema.nullish THEN {}
  ELSE IF val.t # schema.type
  THEN {Issue(path, "invalid_type", schema.type, val.t, {})}
  ELSE IF schema.of = "array"
  THEN UNION {ZodIssues(schema.element[1], Items(val)[i],
                        path \o "." \o IndexName(i)) : i \in DOMAIN Items(val)}
  ELSE IF schema.of = "record"
  THEN UNION {ZodIssues(schema.element[1], Props(val)[i].v,
                        path \o "." \o Props(val)[i].k) : i \in DOMAIN Props(val)}
  ELSE {}

\* ZodType.parse: the value it returns when there is no issue.  z.object({})
\* strips the properties it does not know, which are all of them
RECURSIVE ZodOutput(_, _)
ZodOutput(schema, val) ==
  IF schema.type = "any" \/ val.t # schema.type THEN val
  ELSE IF schema.of = "array"
  THEN ArrayWith([i \in DOMAIN Items(val) |->
                    ZodOutput(schema.element[1], Items(val)[i])])
  ELSE IF schema.of = "record"
  THEN ObjectWith([i \in DOMAIN Props(val) |->
                     Entry(Props(val)[i].k,
                           ZodOutput(schema.element[1], Props(val)[i].v))])
  ELSE IF schema.of = "object" THEN Obj
  ELSE val

\* the issues of one field of a strict object schema
FieldIssues(e, args) ==
  LET val == IF e.k \in DOMAIN args THEN args[e.k] ELSE UNDEF
  IN ZodIssues(e.v, val, e.k)

\* what parse returns of arguments that have no issue
ParseOutput(shape, args) ==
  [key \in DOMAIN args \cap KeySet(shape) |-> ZodOutput(Get(shape, key), args[key])]

\* a variant that strips the keys that are not in the shape (a schema that
\* is not strict)
ParseIssuesStripping(shape, args) ==
  UNION {FieldIssues(shape[i], args) : i \in DOMAIN shape}

\* ZodObject.parse of a strict schema: every field is checked, and the keys
\* that are not in the shape give one unrecognized_keys issue at the root
ParseIssues(shape, args) ==
  UNION {FieldIssues(shape[i], args) : i \in DOMAIN shape}
  \cup (IF DOMAIN args \subseteq KeySet(shape) THEN {}
        ELSE {Issue("payload", "unrecognized_keys", "", "",
                    DOMAIN args \ KeySet(shape))})

\* ZodTypeSchema: the discriminator values of the type union
TypeNames == {"string", "integer", "float", "boolean", "array", "object"}

ManifestIssue(path, code, message) ==
  [path |-> path, code |-> code, message |-> message]

\* ZodParameterSchema: the name is not empty, the type is one of the union
ParameterIssues(toolName, parameters) ==
  UNION {(IF parameters[i].name = ""
          THEN {ManifestIssue(<<"tools", toolName, "parameters", i, "name">>,
                              "too_small", "Parameter name cannot be empty")}
          ELSE {})
         \cup (IF parameters[i].type \notin TypeNames
               THEN {ManifestIssue(<<"tools", toolName, "parameters", i, "type">>,
                                   "invalid_union_discriminator", "")}
               ELSE {})
         \cup (IF parameters[i].type = "array" /\ parameters[i].items = <<>>
               THEN {ManifestIssue(<<"tools", toolName, "parameters", i, "items">>,
                                   "invalid_type", "Required")}
               ELSE {}) : i \in DOMAIN parameters}

\* a variant that accepts any body
ManifestIssuesUnchecked(body) == {}

\* ZodManifestSchema.parse: the issues of a response body
ManifestIssues(body) ==
  (IF body.serverVersion = ""
   THEN {ManifestIssue(<<"serverVersion">>, "too_small",
                       "Server version cannot be empty")}
   ELSE {})
  \cup UNION {(IF body.tools[i].k = ""
               THEN {ManifestIssue(<<"tools", "">>, "too_small",
                                   "Tool name cannot be empty")}
               ELSE {})
              \cup ParameterIssues(body.tools[i].k, body.tools[i].v.parameters) :
                i \in DOMAIN body.tools}

\* ---------------------------------------------------------- errorUtils.ts
\* logApiError: one console.error with the response body of the failed
\* request when there is one, else with the message of the error
LogApiError(baseMessage, error) ==
  <<[message |-> baseMessage,
     details |-> IF error.data # <<>> THEN error.data ELSE error.error]>>

\* --------------------------------------------------------------- tool.ts
\* getAuthHeaderName
GetAuthHeaderName(authTokenName) == authTokenName \o "_token"

\* a variant that finds no duplicate
HeaderDuplicatesUnchecked(clientHeaders, services) == <<>>

\* client header names that are also the header name of an auth service
HeaderDuplicates(clientHeaders, services) ==
  SelectSeq(Keys(clientHeaders),
            LAMBDA h : h \in {GetAuthHeaderName(services[i]) : i \in DOMAIN services})

\* the result of a factory or derivation call: the instance it returns, or
\* the error it throws
Threw(outcome, names) ==
  [ok |-> FALSE, outcome |-> outcome, names |-> names, bound |-> <<>>,
   tool |-> <<>>]

Returned(tool) ==
  [ok |-> TRUE, outcome |-> "ok", names |-> <<>>, bound |-> <<>>, tool |-> tool]

\* ToolboxTool: the factory.  The instance is the set of values the closure
\* and the properties of the callable hold.
ToolboxTool(name, paramSchema, authTokenGetters, requiredAuthnParams, requiredAuthzTokens, boundParams, clientHeaders) ==
  LET duplicates == HeaderDuplicates(clientHeaders, Keys(authTokenGetters))
  IN IF duplicates # <<>>
     THEN Threw("header_conflict", duplicates)
     ELSE Returned([toolName |-> name,
                    params |-> paramSchema,
                    authTokenGetters |-> authTokenGetters,
                    requiredAuthnParams |-> requiredAuthnParams,
                    requiredAuthzTokens |-> requiredAuthzTokens,
                    boundParams |-> boundParams,
                    clientHeaders |-> clientHeaders])

\* userParamSchema: the schema the call arguments are parsed with
\* a variant that validates with the whole schema of the instance
UserParamSchemaWhole(tool) == tool.params

UserParamSchema(tool) == Omit(tool.params, KeySet(tool.boundParams))

\* getParamSchema: the schema the factory was given
GetParamSchema(tool) == tool.params

\* a variant that lists a service once per requirement that names it
ReqAuthServicesRepeated(tool) ==
  Flatten([i \in DOMAIN tool.requiredAuthnParams |->
             tool.requiredAuthnParams[i].v])
  \o tool.requiredAuthzTokens

\* the services named by the outstanding-requirement error
ReqAuthServices(tool) ==
  Dedupe(Flatten([i \in DOMAIN tool.requiredAuthnParams |->
                    tool.requiredAuthnParams[i].v])
         \o tool.requiredAuthzTokens)

\* Promise.all over the bound parameters: every value is resolved, the
\* functions are called in the order of the entries
RECURSIVE ResolveBoundParams(_, _)
ResolveBoundParams(entries, st) ==
  IF entries = <<>> THEN [entries |-> <<>>, st |-> st, called |-> <<>>]
  ELSE LET r == ResolveValue(Head(entries).v, st)
           rest == ResolveBoundParams(Tail(entries), r.st)
       IN [entries |-> <<Entry(Head(entries).k, r.val)>> \o rest.entries,
           st |-> rest.st,
           called |-> r.called \o rest.called]

\* {...validatedUserArgs, ...resolvedBoundParams}
MergePayload(validatedUserArgs, resolvedBoundParams) ==
  [key \in DOMAIN validatedUserArgs \cup DOMAIN resolvedBoundParams |->
     IF key \in DOMAIN resolvedBoundParams THEN resolvedBoundParams[key]
     ELSE validatedUserArgs[key]]

\* a variant that sends every key of the merged payload
FilterPayloadKeepingNull(payload) == payload

\* the reduce that drops null and undefined
FilterPayload(payload) ==
  [key \in {k \in DOMAIN payload : payload[k].t \notin {"null", "undefined"}} |->
     payload[key]]

\* a variant that sends whatever the provider gave, as a string
RECURSIVE ResolveStringsCoercing(_, _)
ResolveStringsCoercing(entries, st) ==
  IF entries = <<>>
  THEN [ok |-> TRUE, bad |-> "", entries |-> <<>>, st |-> st, called |-> <<>>]
  ELSE LET r == ResolveValue(Head(entries).v, st)
           rest == ResolveStringsCoercing(Tail(entries), r.st)
       IN [ok |-> rest.ok, bad |-> rest.bad,
           entries |-> <<Entry(Head(entries).k, Str(r.val.v))>> \o rest.entries,
           st |-> rest.st,
           called |-> r.called \o rest.called]

\* the two for-loops over clientHeaders and authTokenGetters: one value
\* after the other, the loop throws at the first that is not a string
RECURSIVE ResolveStrings(_, _)
ResolveStrings(entries, st) ==
  IF entries = <<>>
  THEN [ok |-> TRUE, bad |-> "", entries |-> <<>>, st |-> st, called |-> <<>>]
  ELSE LET r == ResolveValue(Head(entries).v, st)
       IN IF r.val.t # "string"
          THEN [ok |-> FALSE, bad |-> Head(entries).k, entries |-> <<>>,
                st |-> r.st, called |-> r.called]
          ELSE LET rest == ResolveStrings(Tail(entries), r.st)
               IN [ok |-> rest.ok, bad |-> rest.bad,
                   entries |-> <<Entry(Head(entries).k, r.val)>> \o rest.entries,
                   st |-> rest.st,
                   called |-> r.called \o rest.called]

\* headers[getAuthHeaderName(authService)] = token, after the client headers
AuthHeaders(tokens) ==
  [i \in DOMAIN tokens |-> Entry(GetAuthHeaderName(tokens[i].k), tokens[i].v)]

\* the value a successful call returns
ResponseResult(response) == response.data.result

\* the outcome of one invocation
CallResult(outcome, tool, services, issues, bad, called, st, request, result, error, logged) ==
  [outcome |-> outcome, tool |-> tool, services |-> services, issues |-> issues,
   bad |-> bad, called |-> called, st |-> st, request |-> request,
   result |-> result, error |-> error, logged |-> logged]

\* callable: the invocation of an instance with callArguments, the user
\* functions being in state st and the transport answering with response
Callable(tool, callArguments, st, response) ==
  LET issues == ParseIssues(UserParamSchema(tool), callArguments)
      bound == ResolveBoundParams(tool.boundParams, st)
      validatedUserArgs == ParseOutput(UserParamSchema(tool), callArguments)
      payload == MergePayload(validatedUserArgs, AsObject(bound.entries))
      hdrs == ResolveStrings(tool.clientHeaders, bound.st)
      toks == ResolveStrings(tool.authTokenGetters, hdrs.st)
      headers == AsObject(Spread(hdrs.entries, AuthHeaders(toks.entries)))
      request == <<[url |-> tool.toolName, body |-> FilterPayload(payload),
                    headers |-> headers]>>
  IN IF tool.requiredAuthnParams # <<>> \/ tool.requiredAuthzTokens # <<>>
     THEN CallResult("auth_required", "", ReqAuthServices(tool), {}, "", <<>>,
                     st, <<>>, UNDEF, "", <<>>)
     ELSE IF issues # {}
     THEN CallResult("validation", tool.toolName, <<>>, issues, "", <<>>,
                     st, <<>>, UNDEF, "", <<>>)
     ELSE IF ~hdrs.ok
     THEN CallResult("header_not_string", "", <<>>, {}, hdrs.bad,
                     bound.called \o hdrs.called, hdrs.st, <<>>, UNDEF, "", <<>>)
     ELSE IF ~toks.ok
     THEN CallResult("token_not_string", "", <<>>, {}, toks.bad,
                     bound.called \o hdrs.called \o toks.called, toks.st,
                     <<>>, UNDEF, "", <<>>)
     ELSE IF ~response.ok
     THEN CallResult("transport", "", <<>>, {}, "",
                     bound.called \o hdrs.called \o toks.called, toks.st,
                     request, UNDEF, response.error,
                     LogApiError("Error posting data to " \o tool.toolName, response))
     ELSE CallResult("ok", "", <<>>, {}, "",
                     bound.called \o hdrs.called \o toks.called, toks.st,
                     request, ResponseResult(response), "", <<>>)

\* a variant that accepts a getter no requirement of the tool uses
AddAuthTokenGettersAcceptingUnused(self, newAuthTokenGetters) ==
  LET existingServices == Keys(self.authTokenGetters)
      incomingServices == Keys(newAuthTokenGetters)
      duplicates == SelectSeq(existingServices,
                              LAMBDA s : s \in Range(incomingServices))
      headerDuplicates == HeaderDuplicates(self.clientHeaders, incomingServices)
      combinedGetters == Spread(self.authTokenGetters, newAuthTokenGetters)
      req == IdentifyAuthRequirements(self.requiredAuthnParams,
                                      self.requiredAuthzTokens, incomingServices)
  IN IF duplicates # <<>> THEN Threw("auth_duplicate", duplicates)
     ELSE IF headerDuplicates # <<>> THEN Threw("header_conflict", headerDuplicates)
     ELSE ToolboxTool(self.toolName, self.params, combinedGetters,
                      req.requiredAuthnParams, req.remainingAuthzTokens,
                      self.boundParams, self.clientHeaders)

\* a variant that keeps the new getters only
AddAuthTokenGettersReplacing(self, newAuthTokenGetters) ==
  LET existingServices == Keys(self.authTokenGetters)
      incomingServices == Keys(newAuthTokenGetters)
      duplicates == SelectSeq(existingServices,
                              LAMBDA s : s \in Range(incomingServices))
      headerDuplicates == HeaderDuplicates(self.clientHeaders, incomingServices)
      combinedGetters == newAuthTokenGetters
      req == IdentifyAuthRequirements(self.requiredAuthnParams,
                                      self.requiredAuthzTokens, incomingServices)
      unusedAuth == SelectSeq(incomingServices,
                              LAMBDA s : s \notin req.usedServices)
  IN IF duplicates # <<>> THEN Threw("auth_duplicate", duplicates)
     ELSE IF headerDuplicates # <<>> THEN Threw("header_conflict", headerDuplicates)
     ELSE IF unusedAuth # <<>> THEN Threw("auth_unused", unusedAuth)
     ELSE ToolboxTool(self.toolName, self.params, combinedGetters,
                      req.requiredAuthnParams, req.remainingAuthzTokens,
                      self.boundParams, self.clientHeaders)

\* addAuthTokenGetters
AddAuthTokenGetters(self, newAuthTokenGetters) ==
  LET existingServices == Keys(self.authTokenGetters)
      incomingServices == Keys(newAuthTokenGetters)
      duplicates == SelectSeq(existingServices,
                              LAMBDA s : s \in Range(incomingServices))
      headerDuplicates == HeaderDuplicates(self.clientHeaders, incomingServices)
      combinedGetters == Spread(self.authTokenGetters, newAuthTokenGetters)
      req == IdentifyAuthRequirements(self.requiredAuthnParams,
                                      self.requiredAuthzTokens, incomingServices)
      unusedAuth == SelectSeq(incomingServices,
                              LAMBDA s : s \notin req.usedServices)
  IN IF duplicates # <<>> THEN Threw("auth_duplicate", duplicates)
     ELSE IF headerDuplicates # <<>> THEN Threw("header_conflict", headerDuplicates)
     ELSE IF unusedAuth # <<>> THEN Threw("auth_unused", unusedAuth)
     ELSE ToolboxTool(self.toolName, self.params, combinedGetters,
                      req.requiredAuthnParams, req.remainingAuthzTokens,
                      self.boundParams, self.clientHeaders)

\* a variant of the loop that lets a bound name be bound again
RECURSIVE BindCheckRebinding(_, _)
BindCheckRebinding(self, names) ==
  IF names = <<>> THEN Returned(<<>>)
  ELSE IF Head(names) \notin KeySet(self.params) \cup KeySet(self.boundParams)
  THEN Threw("no_such_parameter", <<Head(names)>>)
  ELSE BindCheckRebinding(self, Tail(names))

\* the first name the loop of bindParams throws on, with the error it throws
RECURSIVE BindCheck(_, _)
BindCheck(self, names) ==
  IF names = <<>> THEN Returned(<<>>)
  ELSE IF Head(names) \in KeySet(self.boundParams)
  THEN Threw("rebind", <<Head(names)>>)
  ELSE IF Head(names) \notin KeySet(self.params)
  THEN Threw("no_such_parameter", <<Head(names)>>)
  ELSE BindCheck(self, Tail(names))

\* a variant that updates the requirements of the receiver itself
ThisAfterAddAuthTokenGettersInPlace(self, newAuthTokenGetters) ==
  LET req == IdentifyAuthRequirements(self.requiredAuthnParams,
                                      self.requiredAuthzTokens,
                                      Keys(newAuthTokenGetters))
  IN [self EXCEPT !.requiredAuthnParams = req.requiredAuthnParams,
                  !.requiredAuthzTokens = req.remainingAuthzTokens]

\* what addAuthTokenGetters and bindParams leave in `this`: neither assigns
\* to a property of the receiver nor to an object the receiver holds
ThisAfterAddAuthTokenGetters(self, newAuthTokenGetters) == self

\* a variant that writes the new bindings into the receiver's own map
ThisAfterBindParamsInPlace(self, paramsToBind) ==
  [self EXCEPT !.boundParams = Spread(@, paramsToBind)]

ThisAfterBindParams(self, paramsToBind) == self

\* bindParams
BindParams(self, paramsToBind) ==
  LET check == BindCheck(self, Keys(paramsToBind))
      newBoundParams == Spread(self.boundParams, paramsToBind)
  IN IF ~check.ok THEN check
     ELSE ToolboxTool(self.toolName, self.params, self.authTokenGetters,
                      self.requiredAuthnParams, self.requiredAuthzTokens,
                      newBoundParams, self.clientHeaders)

\* ------------------------------------------------------------- client.ts
\* #createToolInstance: the parameters are split into authenticated, bound
\* and plain ones, and the instance is built from the plain ones
AuthParams(toolSchema) ==
  LET ps == SelectSeq(toolSchema.parameters, LAMBDA p : p.authSources # <<>>)
  IN [i \in DOMAIN ps |-> Entry(ps[i].name, ps[i].authSources)]

\* a variant that binds an authenticated parameter too
CurrBoundParamsWithAuth(toolSchema, boundParams) ==
  LET ps == SelectSeq(toolSchema.parameters,
                      LAMBDA p : p.name \in KeySet(boundParams))
  IN [i \in DOMAIN ps |-> Entry(ps[i].name, Get(boundParams, ps[i].name))]

CurrBoundParams(toolSchema, boundParams) ==
  LET ps == SelectSeq(toolSchema.parameters,
                      LAMBDA p : p.authSources = <<>> /\ p.name \in KeySet(boundParams))
  IN [i \in DOMAIN ps |-> Entry(ps[i].name, Get(boundParams, ps[i].name))]

\* a variant that leaves the authenticated parameters in the schema
PlainParamsWithAuth(toolSchema, boundParams) ==
  SelectSeq(toolSchema.parameters, LAMBDA p : p.name \notin KeySet(boundParams))

PlainParams(toolSchema, boundParams) ==
  SelectSeq(toolSchema.parameters,
            LAMBDA p : p.authSources = <<>> /\ p.name \notin KeySet(boundParams))

\* a variant that reports every supplied service as used
CreateToolInstanceAllAuthUsed(clientHeaders, toolName, toolSchema, authTokenGetters, boundParams) ==
  LET currBoundParams == CurrBoundParams(toolSchema, boundParams)
      req == IdentifyAuthRequirements(AuthParams(toolSchema),
                                      toolSchema.authRequired,
                                      Keys(authTokenGetters))
      paramZodSchema ==
        CreateZodSchemaFromParams(PlainParams(toolSchema, boundParams))
      unknown == SelectSeq(paramZodSchema, LAMBDA e : ZodThrows(e.v))
  IN [tool |-> IF unknown # <<>>
               THEN Threw("unknown_parameter_type", <<Head(unknown).k>>)
               ELSE ToolboxTool(toolName, paramZodSchema, authTokenGetters,
                                req.requiredAuthnParams, req.remainingAuthzTokens,
                                currBoundParams, clientHeaders),
      usedAuthKeys |-> KeySet(authTokenGetters),
      usedBoundKeys |-> KeySet(currBoundParams)]

CreateToolInstance(clientHeaders, toolName, toolSchema, authTokenGetters, boundParams) ==
  LET currBoundParams == CurrBoundParams(toolSchema, boundParams)
      req == IdentifyAuthRequirements(AuthParams(toolSchema),
                                      toolSchema.authRequired,
                                      Keys(authTokenGetters))
      paramZodSchema ==
        CreateZodSchemaFromParams(PlainParams(toolSchema, boundParams))
      unknown == SelectSeq(paramZodSchema, LAMBDA e : ZodThrows(e.v))
  IN [tool |-> IF unknown # <<>>
               THEN Threw("unknown_parameter_type", <<Head(unknown).k>>)
               ELSE ToolboxTool(toolName, paramZodSchema, authTokenGetters,
                                req.requiredAuthnParams, req.remainingAuthzTokens,
                                currBoundParams, clientHeaders),
      usedAuthKeys |-> req.usedServices,
      usedBoundKeys |-> KeySet(currBoundParams)]

\* loadTool, the manifest having been fetched and parsed
LoadTool(manifest, clientHeaders, name, authTokenGetters, boundParams) ==
  IF name \notin KeySet(manifest.tools) THEN Threw("not_found", <<name>>)
  ELSE
    LET c == CreateToolInstance(clientHeaders, name, Get(manifest.tools, name),
                                authTokenGetters, boundParams)
        unusedAuth == SelectSeq(Keys(authTokenGetters),
                                LAMBDA key : key \notin c.usedAuthKeys)
        unusedBound == SelectSeq(Keys(boundParams),
                                 LAMBDA key : key \notin c.usedBoundKeys)
    IN IF ~c.tool.ok THEN c.tool
       ELSE IF unusedAuth # <<>> \/ unusedBound # <<>>
       THEN [ok |-> FALSE, outcome |-> "unused", names |-> unusedAuth,
             bound |-> unusedBound, tool |-> <<>>]
       ELSE c.tool

\* String(resolved), of a string or a number
StringOf(value) == Str(value.v)

\* #resolveClientHeaders: every provider is resolved and made a string
ResolveClientHeaders(clientHeaders, st) ==
  LET r == ResolveBoundParams(clientHeaders, st)
  IN [headers |-> [key \in KeySet(r.entries) |-> StringOf(Get(r.entries, key))],
      st |-> r.st, called |-> r.called]

\* a variant that asks the server a second time when the GET failed
FetchAndParseManifestRetrying(clientHeaders, apiPath, st, answer) ==
  LET h == ResolveClientHeaders(clientHeaders, st)
      get == [url |-> apiPath, headers |-> h.headers]
      issues == ManifestIssues(answer.data)
  IN IF ~answer.ok
     THEN [ok |-> FALSE, outcome |-> "fetch", manifest |-> <<>>, issues |-> {},
           st |-> h.st, gets |-> <<get, get>>,
           logged |-> LogApiError("Error fetching data from " \o apiPath, answer),
           error |-> answer.error]
     ELSE IF issues # {}
     THEN [ok |-> FALSE, outcome |-> "invalid_manifest", manifest |-> <<>>,
           issues |-> issues, st |-> h.st, gets |-> <<get>>, logged |-> <<>>,
           error |-> "Invalid manifest structure received from " \o apiPath]
     ELSE [ok |-> TRUE, outcome |-> "ok", manifest |-> answer.data,
           issues |-> {}, st |-> h.st, gets |-> <<get>>, logged |-> <<>>,
           error |-> ""]

\* #fetchAndParseManifest: one GET with the resolved client headers; a
\* failed GET is logged and its error thrown again, a body that does not
\* parse gives a new error with the issues
FetchAndParseManifest(clientHeaders, apiPath, st, answer) ==
  LET h == ResolveClientHeaders(clientHeaders, st)
      get == [url |-> apiPath, headers |-> h.headers]
      issues == ManifestIssues(answer.data)
  IN IF ~answer.ok
     THEN [ok |-> FALSE, outcome |-> "fetch", manifest |-> <<>>, issues |-> {},
           st |-> h.st, gets |-> <<get>>,
           logged |-> LogApiError("Error fetching data from " \o apiPath, answer),
           error |-> answer.error]
     ELSE IF issues # {}
     THEN [ok |-> FALSE, outcome |-> "invalid_manifest", manifest |-> <<>>,
           issues |-> issues, st |-> h.st, gets |-> <<get>>, logged |-> <<>>,
           error |-> "Invalid manifest structure received from " \o apiPath]
     ELSE [ok |-> TRUE, outcome |-> "ok", manifest |-> answer.data,
           issues |-> {}, st |-> h.st, gets |-> <<get>>, logged |-> <<>>,
           error |-> ""]

\* what a load call did: the fetch, and the instance(s) it returned or the
\* error it threw
Loaded(f, r) ==
  [ok |-> f.ok /\ r.ok, outcome |-> IF f.ok THEN r.outcome ELSE f.outcome,
   names |-> r.names, bound |-> r.bound, tool |-> r.tool, at |-> r.at,
   issues |-> f.issues, st |-> f.st, gets |-> f.gets, logged |-> f.logged,
   error |-> f.error]

At(r, toolName) ==
  [ok |-> r.ok, outcome |-> r.outcome, names |-> r.names, bound |-> r.bound,
   tool |-> r.tool, at |-> toolName]

\* loadTool: the manifest is fetched from /api/tool/<name>, then the
\* instance is made
LoadToolCall(clientHeaders, name, authTokenGetters, boundParams, st, answer) ==
  LET f == FetchAndParseManifest(clientHeaders, "/api/tool/" \o name, st, answer)
  IN Loaded(f, IF f.ok
               THEN At(LoadTool(f.manifest, clientHeaders, name,
                                authTokenGetters, boundParams), name)
               ELSE At(Threw(f.outcome, <<>>), name))

\* the keys of a supplied map that are not in `used`, in the map's order
Unused(supplied, used) == SelectSeq(Keys(supplied), LAMBDA key : key \notin used)

UnusedError(outcome, unusedAuth, unusedBound, at) ==
  [ok |-> FALSE, outcome |-> outcome, names |-> unusedAuth,
   bound |-> unusedBound, tool |-> <<>>, at |-> at]

\* a variant of the loop whose strict check is the check of the other mode
RECURSIVE ToolsetLoopLenient(_, _, _, _, _, _, _, _)
ToolsetLoopLenient(entries, clientHeaders, authTokenGetters, boundParams, strict, tools, overallUsedAuthKeys, overallUsedBoundParams) ==
  IF entries = <<>>
  THEN [ok |-> TRUE, tools |-> tools, usedAuth |-> overallUsedAuthKeys,
        usedBound |-> overallUsedBoundParams, error |-> <<>>]
  ELSE
    LET c == CreateToolInstance(clientHeaders, Head(entries).k, Head(entries).v,
                                authTokenGetters, boundParams)
    IN IF ~c.tool.ok
       THEN [ok |-> FALSE, tools |-> <<>>, usedAuth |-> {}, usedBound |-> {},
             error |-> At(c.tool, Head(entries).k)]
       ELSE ToolsetLoopLenient(Tail(entries), clientHeaders, authTokenGetters,
                               boundParams, strict, Append(tools, c.tool.tool),
                               overallUsedAuthKeys \cup c.usedAuthKeys,
                               overallUsedBoundParams \cup c.usedBoundKeys)

\* a variant of the loop that keeps the used keys of the last tool only
RECURSIVE ToolsetLoopLastTool(_, _, _, _, _, _, _, _)
ToolsetLoopLastTool(entries, clientHeaders, authTokenGetters, boundParams, strict, tools, overallUsedAuthKeys, overallUsedBoundParams) ==
  IF entries = <<>>
  THEN [ok |-> TRUE, tools |-> tools, usedAuth |-> overallUsedAuthKeys,
        usedBound |-> overallUsedBoundParams, error |-> <<>>]
  ELSE
    LET c == CreateToolInstance(clientHeaders, Head(entries).k, Head(entries).v,
                                authTokenGetters, boundParams)
        unusedAuth == Unused(authTokenGetters, c.usedAuthKeys)
        unusedBound == Unused(boundParams, c.usedBoundKeys)
    IN IF ~c.tool.ok
       THEN [ok |-> FALSE, tools |-> <<>>, usedAuth |-> {}, usedBound |-> {},
             error |-> At(c.tool, Head(entries).k)]
       ELSE IF strict /\ (unusedAuth # <<>> \/ unusedBound # <<>>)
       THEN [ok |-> FALSE, tools |-> <<>>, usedAuth |-> {}, usedBound |-> {},
             error |-> UnusedError("unused", unusedAuth, unusedBound,
                                   Head(entries).k)]
       ELSE ToolsetLoopLastTool(Tail(entries), clientHeaders, authTokenGetters,
                                boundParams, strict, Append(tools, c.tool.tool),
                                c.usedAuthKeys, c.usedBoundKeys)

\* the for-loop of loadToolset over the entries of manifest.tools
RECURSIVE ToolsetLoop(_, _, _, _, _, _, _, _)
ToolsetLoop(entries, clientHeaders, authTokenGetters, boundParams, strict, tools, overallUsedAuthKeys, overallUsedBoundParams) ==
  IF entries = <<>>
  THEN [ok |-> TRUE, tools |-> tools, usedAuth |-> overallUsedAuthKeys,
        usedBound |-> overallUsedBoundParams, error |-> <<>>]
  ELSE
    LET c == CreateToolInstance(clientHeaders, Head(entries).k, Head(entries).v,
                                authTokenGetters, boundParams)
        unusedAuth == Unused(authTokenGetters, c.usedAuthKeys)
        unusedBound == Unused(boundParams, c.usedBoundKeys)
    IN IF ~c.tool.ok
       THEN [ok |-> FALSE, tools |-> <<>>, usedAuth |-> {}, usedBound |-> {},
             error |-> At(c.tool, Head(entries).k)]
       ELSE IF strict /\ (unusedAuth # <<>> \/ unusedBound # <<>>)
       THEN [ok |-> FALSE, tools |-> <<>>, usedAuth |-> {}, usedBound |-> {},
             error |-> UnusedError("unused", unusedAuth, unusedBound,
                                   Head(entries).k)]
       ELSE ToolsetLoop(Tail(entries), clientHeaders, authTokenGetters,
                        boundParams, strict, Append(tools, c.tool.tool),
                        IF strict THEN overallUsedAuthKeys
                        ELSE overallUsedAuthKeys \cup c.usedAuthKeys,
                        IF strict THEN overallUsedBoundParams
                        ELSE overallUsedBoundParams \cup c.usedBoundKeys)

\* loadToolset, the manifest having been fetched and parsed
LoadToolset(manifest, clientHeaders, name, authTokenGetters, boundParams, strict) ==
  LET loop == ToolsetLoop(manifest.tools, clientHeaders, authTokenGetters,
                          boundParams, strict, <<>>, {}, {})
      unusedAuth == Unused(authTokenGetters, loop.usedAuth)
      unusedBound == Unused(boundParams, loop.usedBound)
  IN IF ~loop.ok THEN loop.error
     ELSE IF ~strict /\ (unusedAuth # <<>> \/ unusedBound # <<>>)
     THEN UnusedError("unused_by_all", unusedAuth, unusedBound,
                      IF name = "" THEN "default" ELSE name)
     ELSE [ok |-> TRUE, outcome |-> "ok", names |-> <<>>, bound |-> <<>>,
           tool |-> loop.tools, at |-> ""]

\* loadToolset: the manifest is fetched from /api/toolset/<name>
LoadToolsetCall(clientHeaders, name, authTokenGetters, boundParams, strict, st, answer) ==
  LET f == FetchAndParseManifest(clientHeaders, "/api/toolset/" \o name, st, answer)
  IN Loaded(f, IF f.ok
               THEN LoadToolset(f.manifest, clientHeaders, name,
                                authTokenGetters, boundParams, strict)
               ELSE At(Threw(f.outcome, <<>>), ""))

\* ---------------------------------------------------------- the inputs
ToolName == "get-n-rows"

\* a parameter of the manifest: the base properties and the type
ParamOf(name, typeSchema, required, authSources) ==
  [name |-> name, type |-> typeSchema.type, items |-> typeSchema.items,
   additionalProperties |-> typeSchema.additionalProperties,
   required |-> required, authSources |-> authSources]

Param(name, type, required, authSources) ==
  ParamOf(name, Primitive(type), required, authSources)

\* the tool of a manifest: a mandatory string, an optional integer, and a
\* string that is plain or authenticated
ToolSchema(src, authz) ==
  [parameters |-> <<Param("num_rows", "string", "absent", <<>>),
                    Param("limit", "integer", "false", <<>>),
                    Param("token", "string", "true", src)>>,
   authRequired |-> authz]

Manifest(src, authz) ==
  [serverVersion |-> "1.0.0", tools |-> <<Entry(ToolName, ToolSchema(src, authz))>>]

\* a server and the headers the client was constructed with: a tool without
\* authentication, a tool with authn and authz requirements, and a client
\* header that has the name of the auth header of s1
Deployments ==
  {[manifest |-> Manifest(<<>>, <<>>),
    clientHeaders |-> <<Entry("X-Trace", Fn("tok"))>>],
   [manifest |-> Manifest(<<"s1", "s2">>, <<"s2">>),
    clientHeaders |-> <<>>],
   [manifest |-> Manifest(<<"s1">>, <<"s2">>),
    clientHeaders |-> <<Entry("s1_token", Lit(Str(7)))>>]}

Getter(s) == Entry(s, Fn("tok"))

GetterMaps ==
  {<<>>, <<Getter("s1")>>, <<Getter("s2")>>, <<Getter("s1"), Getter("s2")>>}

BindMaps ==
  {<<Entry("num_rows", Lit(Str(3)))>>,
   <<Entry("num_rows", Fn("ctr"))>>,
   <<Entry("limit", Lit(NULL))>>,
   <<Entry("token", Lit(Str(3)))>>,
   <<Entry("limit", Lit(NULL)), Entry("num_rows", Lit(Str(3)))>>,
   <<Entry("num_rows", Fn("ctr")), Entry("bogus", Lit(Str(3)))>>}

\* the bound parameters given to loadTool
LoadBindMaps ==
  {<<>>,
   <<Entry("num_rows", Lit(Str(3)))>>,
   <<Entry("token", Lit(Str(3)))>>}

ArgChoices ==
  {<<>>,
   [num_rows |-> Str(3)],
   [num_rows |-> Str(3), limit |-> Num(5)],
   [num_rows |-> Str(3), limit |-> NULL],
   [limit |-> Str(3)],
   [num_rows |-> Str(3), token |-> Str(3)]}

Responses ==
  {[ok |-> TRUE, data |-> [result |-> Str(9), status |-> Str(8)], error |-> ""],
   [ok |-> FALSE, data |-> <<>>, error |-> "ECONNRESET"]}

\* ------------------------------------------------------ the state machine
\* no request is sent, the transport is not asked
NoResponse == [ok |-> FALSE, data |-> <<>>, error |-> ""]

\* an invocation in progress: where it is in callable (pc), the instance
\* and the arguments, the bound values whose resolution has started
\* (resolving), those that have not settled (pending) or have thrown
\* (rejected), the value of the header or token being awaited (cur, the
\* j-th of its map), the filtered payload once it is assembled, the headers
\* set so far, what was done so far (trace), and the outcome
Invocation(pc, recv, args, resolving, pending, rejected, cur, j, payload, headers, trace, out) ==
  [pc |-> pc, recv |-> recv, args |-> args, resolving |-> resolving,
   pending |-> pending, rejected |-> rejected, cur |-> cur, j |-> j,
   payload |-> payload, headers |-> headers, trace |-> trace, out |-> out]

\* no invocation is in progress
Idle == Invocation("idle", 0, <<>>, <<>>, {}, {}, UNDEF, 0, <<>>, <<>>, <<>>, <<>>)

\* authMethods.ts: the URLs ID tokens are asked for
Urls == {"https://a.example", "https://b.example"}

\* the state of the module authMethods.ts when it is loaded: clientCache is
\* empty (0 is no client), getIdTokenClient and fetchIdToken were not
\* called, no client was made, no call of getGoogleIdToken was made
NoIdTokens ==
  [clientCache |-> [url \in Urls |-> 0],
   getIdTokenClient |-> [url \in Urls |-> 0],
   created |-> [url \in Urls |-> 0],
   fetchIdToken |-> [url \in Urls |-> 0],
   calls |-> <<>>]

VARIABLES manifest, clientHeaders, tools, fnState, last, call, idTokens

vars == <<manifest, clientHeaders, tools, fnState, last, call, idTokens>>

\* the last operation: its receiver, its input, and what it returned or threw
Last(op, recv, idx, input, response, out) ==
  [op |-> op, recv |-> recv, idx |-> idx, input |-> input,
   response |-> response, out |-> out]

Init ==
  /\ \E d \in Deployments :
       manifest = d.manifest /\ clientHeaders = d.clientHeaders
  /\ tools = <<>>
  /\ fnState = [f \in Fns |-> 0]
  /\ last = Last("new", 0, 0, <<>>, <<>>, <<>>)
  /\ call = Idle
  /\ idTokens = NoIdTokens

\* tool = await client.loadTool(name, authTokenGetters, boundParams): the
\* caller's first step, repeated until it returns a tool; every other
\* instance is derived from that one
DoLoadTool(authTokenGetters, boundParams) ==
  LET r == LoadTool(manifest, clientHeaders, ToolName, authTokenGetters, boundParams)
  IN /\ tools = <<>>
     /\ tools' = IF r.ok THEN Append(tools, r.tool) ELSE tools
     /\ last' = Last("loadTool", 0, IF r.ok THEN Len(tools) + 1 ELSE 0,
                     <<authTokenGetters, boundParams>>, <<>>, r)
     /\ UNCHANGED <<manifest, clientHeaders, fnState, call, idTokens>>

\* the receiver keeps what the call left in it, the returned instance is a
\* new object
Derive(op, i, input, r, this) ==
  /\ r.ok => Len(tools) < MaxTools
  /\ tools' = IF r.ok THEN Append([tools EXCEPT ![i] = this], r.tool)
              ELSE [tools EXCEPT ![i] = this]
  /\ last' = Last(op, i, IF r.ok THEN Len(tools) + 1 ELSE 0, input, <<>>, r)
  /\ UNCHANGED <<manifest, clientHeaders, fnState, call, idTokens>>

\* tools[i].bindParams(paramsToBind)
DoBindParams(i, paramsToBind) ==
  Derive("bindParams", i, paramsToBind,
         BindParams(tools[i], paramsToBind),
         ThisAfterBindParams(tools[i], paramsToBind))

\* tools[i].addAuthTokenGetters(newAuthTokenGetters)
DoAddAuthTokenGetters(i, newAuthTokenGetters) ==
  Derive("addAuthTokenGetters", i, newAuthTokenGetters,
         AddAuthTokenGetters(tools[i], newAuthTokenGetters),
         ThisAfterAddAuthTokenGetters(tools[i], newAuthTokenGetters))

\* await tools[i](callArguments); the transport answers when it is asked
DoInvoke(i, callArguments, response) ==
  LET r == Callable(tools[i], callArguments, fnState, response)
  IN /\ response = NoResponse <=> r.request = <<>>
     /\ fnState' = r.st
     /\ last' = Last("invoke", i, 0, callArguments, response, r)
     /\ UNCHANGED <<manifest, clientHeaders, tools, call, idTokens>>

Next ==
  \/ \E g \in GetterMaps, b \in LoadBindMaps : DoLoadTool(g, b)
  \/ \E i \in DOMAIN tools, b \in BindMaps : DoBindParams(i, b)
  \/ \E i \in DOMAIN tools, g \in GetterMaps : DoAddAuthTokenGetters(i, g)
  \/ \E i \in DOMAIN tools, a \in ArgChoices, r \in Responses \cup {NoResponse} :
       DoInvoke(i, a, r)

Spec == Init /\ [][Next]_vars

TypeOK ==
  /\ Len(tools) <= MaxTools
  /\ \A i \in DOMAIN tools : IsMap(tools[i].boundParams) /\ IsMap(tools[i].authTokenGetters)

\* ------------------------------------------- loading from a server
\* A second tool: an optional integer and a mandatory string
SearchName == "search-rows"

SearchSchema(authz) ==
  [parameters |-> <<Param("limit", "integer", "false", <<>>),
                    Param("query", "string", "absent", <<>>)>>,
   authRequired |-> authz]

Toolset(version, src, authzA, authzB) ==
  [serverVersion |-> version,
   tools |-> <<Entry(ToolName, ToolSchema(src, authzA)),
               Entry(SearchName, SearchSchema(authzB))>>]

\* a body with a parameter whose type is none of the union
DatedBody ==
  [serverVersion |-> "1.0.0",
   tools |-> <<Entry(ToolName,
                     [parameters |-> <<Param("when", "date", "true", <<>>)>>,
                      authRequired |-> <<>>])>>]

\* the body a server answers with and the headers of the client: s1 is
\* used by the first tool only and s2 by the second only; s2 is used by
\* both; a client header with the header name of s1; a client header that
\* is a number; no tool; two bodies that are no manifest
Servers ==
  {[body |-> Toolset("1.0.0", <<"s1">>, <<>>, <<"s2">>), clientHeaders |-> <<>>],
   [body |-> Toolset("1.0.0", <<"s1", "s2">>, <<"s2">>, <<"s2">>),
    clientHeaders |-> <<Entry("X-Trace", Fn("tok"))>>],
   [body |-> Toolset("1.0.0", <<"s1">>, <<>>, <<"s2">>),
    clientHeaders |-> <<Entry("s1_token", Lit(Str(7)))>>],
   [body |-> Toolset("1.0.0", <<>>, <<>>, <<>>),
    clientHeaders |-> <<Entry("X-Num", Lit(Num(5)))>>],
   [body |-> [serverVersion |-> "1.0.0", tools |-> <<>>], clientHeaders |-> <<>>],
   [body |-> Toolset("", <<"s1">>, <<>>, <<"s2">>), clientHeaders |-> <<>>],
   [body |-> DatedBody, clientHeaders |-> <<>>]}

\* the answer to the GET: the body, a failure without a response, a
\* failure with a response body
GetAnswers(body) ==
  {[ok |-> TRUE, data |-> body, error |-> ""],
   [ok |-> FALSE, data |-> <<>>, error |-> "ECONNREFUSED"],
   [ok |-> FALSE, data |-> <<Str(4)>>, error |-> "Request failed with status code 500"]}

\* the answers to the POST
PostAnswers ==
  Responses
  \cup {[ok |-> FALSE, data |-> <<Str(4)>>,
         error |-> "Request failed with status code 500"]}

LoadNames == {ToolName, SearchName, "no-such-tool"}

ToolsetNames == {"", "my-toolset"}

\* the getters given to loadTool and loadToolset: a getter that returns a
\* number is among them
LoadGetterMaps == GetterMaps \cup {<<Entry("s2", Fn("ctr"))>>}

ToolsetBindMaps ==
  {<<>>,
   <<Entry("num_rows", Lit(Str(3)))>>,
   <<Entry("limit", Lit(NULL))>>,
   <<Entry("token", Lit(Str(3)))>>,
   <<Entry("num_rows", Fn("ctr")), Entry("bogus", Lit(Str(3)))>>}

LoadArgChoices ==
  {<<>>, [num_rows |-> Str(3)], [query |-> Str(3)],
   [num_rows |-> Str(3), token |-> Str(3)]}

InitLoad ==
  /\ \E s \in Servers :
       manifest = s.body /\ clientHeaders = s.clientHeaders
  /\ tools = <<>>
  /\ fnState = [f \in Fns |-> 0]
  /\ last = Last("new", 0, 0, <<>>, <<>>, <<>>)
  /\ call = Idle
  /\ idTokens = NoIdTokens

\* tool = await client.loadTool(name, authTokenGetters, boundParams), the
\* first call on the client, the server answering the GET with `answer`
DoLoadToolCall(name, authTokenGetters, boundParams, answer) ==
  LET r == LoadToolCall(clientHeaders, name, authTokenGetters, boundParams,
                        fnState, answer)
  IN /\ last.op = "new"
     /\ tools' = IF r.ok THEN <<r.tool>> ELSE <<>>
     /\ fnState' = r.st
     /\ last' = Last("loadTool", 0, IF r.ok THEN 1 ELSE 0,
                     <<authTokenGetters, boundParams, name>>, answer, r)
     /\ UNCHANGED <<manifest, clientHeaders, call, idTokens>>

\* tools = await client.loadToolset(name, authTokenGetters, boundParams,
\* strict), the first call on the client
DoLoadToolset(name, authTokenGetters, boundParams, strict, answer) ==
  LET r == LoadToolsetCall(clientHeaders, name, authTokenGetters, boundParams,
                           strict, fnState, answer)
  IN /\ last.op = "new"
     /\ r.ok => Len(r.tool) <= MaxTools
     /\ tools' = IF r.ok THEN r.tool ELSE <<>>
     /\ fnState' = r.st
     /\ last' = Last("loadToolset", 0, 0,
                     <<authTokenGetters, boundParams, strict>>, answer, r)
     /\ UNCHANGED <<manifest, clientHeaders, call, idTokens>>

NextLoad ==
  \/ \E n \in LoadNames, g \in LoadGetterMaps, b \in ToolsetBindMaps,
        a \in GetAnswers(manifest) : DoLoadToolCall(n, g, b, a)
  \/ \E n \in ToolsetNames, g \in LoadGetterMaps, b \in ToolsetBindMaps,
        strict \in BOOLEAN, a \in GetAnswers(manifest) :
       DoLoadToolset(n, g, b, strict, a)
  \/ \E i \in DOMAIN tools, a \in LoadArgChoices, r \in PostAnswers \cup {NoResponse} :
       DoInvoke(i, a, r)

SpecLoad == InitLoad /\ [][NextLoad]_vars

\* ------------------------------------------- translating one parameter
\* the parameter of the tool: of every type, with required absent, true or
\* false
ValueName == "value"

Requireds == {"absent", "true", "false"}

\* the types of the parameter: the primitive types, arrays, and objects
\* with every form of additionalProperties, a nested one among them
ParamTypes ==
  {Primitive(type) : type \in {"string", "integer", "float", "boolean"}}
  \cup {ArrayType(Primitive("string")), ArrayType(Primitive("integer"))}
  \cup {ObjectType(NoAdditional), ObjectType(Additional("true")),
        ObjectType(Additional("false")),
        ObjectType(AdditionalOf(Primitive("string"))),
        ObjectType(AdditionalOf(Primitive("integer"))),
        ObjectType(AdditionalOf(ObjectType(Additional("false")))),
        ObjectType(AdditionalOf(ObjectType(AdditionalOf(Primitive("string")))))}

OneParamManifest(typeSchema, required) ==
  [serverVersion |-> "1.0.0",
   tools |-> <<Entry(ToolName,
                     [parameters |-> <<ParamOf(ValueName, typeSchema, required, <<>>)>>,
                      authRequired |-> <<>>])>>]

\* the arguments: the key is omitted, or has one of the values
ValueArgs ==
  {<<>>} \cup {[key \in {ValueName} |-> x] :
                 x \in {NULL, UNDEF, Str(3), Num(5), Bool} \cup Arrays \cup Objects}

InitParse ==
  /\ \E typeSchema \in ParamTypes, required \in Requireds :
       manifest = OneParamManifest(typeSchema, required)
  /\ clientHeaders = <<>>
  /\ tools = <<>>
  /\ fnState = [f \in Fns |-> 0]
  /\ last = Last("new", 0, 0, <<>>, <<>>, <<>>)
  /\ call = Idle
  /\ idTokens = NoIdTokens

\* createZodSchemaFromParams(parameters).parse(args)
DoParse(args) ==
  LET schema == CreateZodSchemaFromParams(Get(manifest.tools, ToolName).parameters)
      issues == ParseIssues(schema, args)
  IN /\ last' = Last("parse", 0, 0, args, <<>>,
                     [issues |-> issues,
                      value |-> IF issues = {} THEN ParseOutput(schema, args)
                                ELSE <<>>])
     /\ UNCHANGED <<manifest, clientHeaders, tools, fnState, call, idTokens>>

NextParse == \E args \in ValueArgs : DoParse(args)

SpecParse == InitParse /\ [][NextParse]_vars

\* ------------------------------------------- matching the requirements
\* the inputs of identifyAuthRequirements: the lists of services a
\* parameter accepts (none, one, several), the parameters, the tokens a
\* tool requires, and the names of the services there are getters for
ServiceLists ==
  {<<>>, <<"s1">>, <<"s2">>, <<"s3">>, <<"s1", "s2">>, <<"s2", "s1">>,
   <<"s2", "s3">>}

AuthnParamMaps ==
  {<<>>}
  \cup {<<Entry("token", l)>> : l \in ServiceLists}
  \cup {<<Entry("token", l), Entry("user", m)>> : l, m \in ServiceLists}

AuthzLists ==
  {<<>>, <<"s1">>, <<"s3">>, <<"s1", "s3">>, <<"s3", "s1">>, <<"s3", "s3">>}

ServiceNames ==
  {<<>>, <<"s1">>, <<"s2">>, <<"s3">>, <<"s1", "s2">>, <<"s2", "s3">>,
   <<"s1", "s3">>, <<"s1", "s2", "s3">>}

\* the entries of s in another order
Permuted(s, f) == [i \in DOMAIN s |-> s[f[i]]]

InitMatch ==
  /\ manifest = Manifest(<<>>, <<>>)
  /\ clientHeaders = <<>>
  /\ tools = <<>>
  /\ fnState = [f \in Fns |-> 0]
  /\ \E reqAuthnParams \in AuthnParamMaps, reqAuthzTokens \in AuthzLists,
        authServiceNames \in ServiceNames :
       last = Last("new", 0, 0,
                   <<reqAuthnParams, reqAuthzTokens, authServiceNames>>, <<>>, <<>>)
  /\ call = Idle
  /\ idTokens = NoIdTokens

\* identifyAuthRequirements(reqAuthnParams, reqAuthzTokens,
\* authServiceNames), the parameters and the names being iterated in the
\* orders f and g
DoIdentifyAuthRequirements(f, g) ==
  LET reqAuthnParams == Permuted(last.input[1], f)
      authServiceNames == Permuted(last.input[3], g)
  IN /\ last' = [last EXCEPT
                   !.op = "identifyAuthRequirements",
                   !.response = <<reqAuthnParams, last.input[2], authServiceNames>>,
                   !.out = IdentifyAuthRequirements(reqAuthnParams, last.input[2],
                                                    authServiceNames)]
     /\ UNCHANGED <<manifest, clientHeaders, tools, fnState, call, idTokens>>

NextMatch ==
  \E f \in Permutations(DOMAIN last.input[1]),
     g \in Permutations(DOMAIN last.input[3]) : DoIdentifyAuthRequirements(f, g)

SpecMatch == InitMatch /\ [][NextMatch]_vars

\* ------------------------------------------ one invocation, step by step
\* callable is an async function: it runs up to an await, and goes on when
\* the awaited promise settles.  The trace lists what it did.
Event(at, of, key) == [at |-> at, of |-> of, key |-> key]

\* a user function that throws when it is called
Throws(value) == value.kind = "fn" /\ value.fn = "boom"

\* what an invocation ends with
Outcome(outcome, services, issues, bad, request, result, error, logged) ==
  [outcome |-> outcome, services |-> services, issues |-> issues, bad |-> bad,
   request |-> request, result |-> result, error |-> error, logged |-> logged]

\* callable throws
Throw(c, outcome, services, issues, bad) ==
  [c EXCEPT !.pc = "done",
            !.out = Outcome(outcome, services, issues, bad, <<>>, UNDEF, "", <<>>)]

\* a variant that rejects a bound value that is null or undefined
RECURSIVE StartBoundChecked(_, _)
StartBoundChecked(entries, st) ==
  IF entries = <<>> THEN [resolving |-> <<>>, rejected |-> {}, st |-> st]
  ELSE IF Throws(Head(entries).v)
  THEN LET rest == StartBoundChecked(Tail(entries), st)
       IN [resolving |-> rest.resolving,
           rejected |-> {Head(entries).k} \cup rest.rejected,
           st |-> rest.st]
  ELSE LET r == ResolveValue(Head(entries).v, st)
           rest == StartBoundChecked(Tail(entries), r.st)
       IN [resolving |-> <<Entry(Head(entries).k, r.val)>> \o rest.resolving,
           rejected |-> (IF r.val.t \in {"null", "undefined"}
                         THEN {Head(entries).k} ELSE {}) \cup rest.rejected,
           st |-> rest.st]

\* Object.entries(boundParams).map(async ...): resolveValue is called for
\* every entry, in the order of the entries; a function is called at once
\* (what it returns is the value), one that throws gives a rejected promise
RECURSIVE StartBound(_, _)
StartBound(entries, st) ==
  IF entries = <<>> THEN [resolving |-> <<>>, rejected |-> {}, st |-> st]
  ELSE IF Throws(Head(entries).v)
  THEN LET rest == StartBound(Tail(entries), st)
       IN [resolving |-> rest.resolving,
           rejected |-> {Head(entries).k} \cup rest.rejected,
           st |-> rest.st]
  ELSE LET r == ResolveValue(Head(entries).v, st)
           rest == StartBound(Tail(entries), r.st)
       IN [resolving |-> <<Entry(Head(entries).k, r.val)>> \o rest.resolving,
           rejected |-> rest.rejected,
           st |-> rest.st]

\* a variant of Promise.all that does not wait for the promises to settle
BoundReadyAtOnce(pending, rejected) == rejected = {}

\* Promise.all is fulfilled: every promise is, none is rejected
BoundReady(pending, rejected) == pending = {} /\ rejected = {}

\* where callable goes on after the j-th auth token getter (j = 0: before
\* the first), and after the j-th client header
AfterToken(t, j) ==
  IF j < Len(t.authTokenGetters) THEN [pc |-> "tokens", j |-> j + 1]
  ELSE [pc |-> "post", j |-> 0]

\* a variant that goes from the last client header to the POST
AfterHeaderToPost(t, j) ==
  IF j < Len(t.clientHeaders) THEN [pc |-> "headers", j |-> j + 1]
  ELSE [pc |-> "post", j |-> 0]

AfterHeader(t, j) ==
  IF j < Len(t.clientHeaders) THEN [pc |-> "headers", j |-> j + 1]
  ELSE AfterToken(t, 0)

\* await tools[i](callArguments) begins
Begin(i, callArguments) ==
  /\ call.pc \in {"idle", "done"}
  /\ call' = [Idle EXCEPT !.pc = "auth", !.recv = i, !.args = callArguments]
  /\ UNCHANGED <<manifest, clientHeaders, tools, fnState, last, idTokens>>

\* the check of the outstanding requirements
CheckAuth ==
  LET t == tools[call.recv]
      c == [call EXCEPT !.trace = Append(@, Event("check", "auth", ""))]
  IN /\ call.pc = "auth"
     /\ call' = IF t.requiredAuthnParams # <<>> \/ t.requiredAuthzTokens # <<>>
                THEN Throw(c, "auth_required", ReqAuthServices(t), {}, "")
                ELSE [c EXCEPT !.pc = "validate"]
     /\ UNCHANGED <<manifest, clientHeaders, tools, fnState, last, idTokens>>

\* userParamSchema.parse(callArguments)
Validate ==
  LET t == tools[call.recv]
      issues == ParseIssues(UserParamSchema(t), call.args)
      c == [call EXCEPT !.trace = Append(@, Event("check", "validate", ""))]
  IN /\ call.pc = "validate"
     /\ call' = IF issues # {} THEN Throw(c, "validation", <<>>, issues, "")
                ELSE [c EXCEPT !.pc = "bound"]
     /\ UNCHANGED <<manifest, clientHeaders, tools, fnState, last, idTokens>>

\* the map over the bound parameters starts every resolution, then
\* callable awaits Promise.all
StartBoundParams ==
  LET t == tools[call.recv]
      r == StartBound(t.boundParams, fnState)
  IN /\ call.pc = "bound"
     /\ call' = [call EXCEPT
                   !.pc = "await_bound",
                   !.resolving = r.resolving,
                   !.pending = KeySet(r.resolving),
                   !.rejected = r.rejected,
                   !.trace = @ \o [i \in DOMAIN t.boundParams |->
                                     Event("start", "bound", t.boundParams[i].k)]]
     /\ fnState' = r.st
     /\ UNCHANGED <<manifest, clientHeaders, tools, last, idTokens>>

\* the promise of one bound value is fulfilled
BoundSettles(key) ==
  /\ call.pc = "await_bound"
  /\ key \in call.pending
  /\ call' = [call EXCEPT !.pending = @ \ {key},
                          !.trace = Append(@, Event("done", "bound", key))]
  /\ UNCHANGED <<manifest, clientHeaders, tools, fnState, last, idTokens>>

\* Promise.all is rejected with the first rejection
BoundRejects ==
  LET t == tools[call.recv]
      first == CHOOSE i \in DOMAIN t.boundParams :
                 /\ t.boundParams[i].k \in call.rejected
                 /\ \A j \in 1..(i - 1) : t.boundParams[j].k \notin call.rejected
  IN /\ call.pc = "await_bound"
     /\ call.rejected # {}
     /\ call' = Throw(call, "bound_rejected", <<>>, {}, t.boundParams[first].k)
     /\ UNCHANGED <<manifest, clientHeaders, tools, fnState, last, idTokens>>

\* payload = {...validatedUserArgs, ...resolvedBoundParams}, filtered
AssemblePayload ==
  LET t == tools[call.recv]
      validatedUserArgs == ParseOutput(UserParamSchema(t), call.args)
      payload == MergePayload(validatedUserArgs, AsObject(call.resolving))
      next == AfterHeader(t, 0)
  IN /\ call.pc = "await_bound"
     /\ BoundReady(call.pending, call.rejected)
     /\ call' = [call EXCEPT !.pc = next.pc, !.j = next.j,
                             !.payload = <<FilterPayload(payload)>>,
                             !.trace = Append(@, Event("assemble", "payload", ""))]
     /\ UNCHANGED <<manifest, clientHeaders, tools, fnState, last, idTokens>>

\* await resolveValue(value) of the j-th entry of a map begins: the
\* function is called
StartOne(pc, of, entries) ==
  LET e == entries[call.j]
      r == ResolveValue(e.v, fnState)
      c == [call EXCEPT !.pc = "await_" \o of,
                        !.trace = Append(@, Event("start", of, e.k))]
  IN /\ call.pc = pc
     /\ IF Throws(e.v)
        THEN call' = [c EXCEPT !.rejected = {e.k}] /\ fnState' = fnState
        ELSE call' = [c EXCEPT !.cur = r.val] /\ fnState' = r.st
     /\ UNCHANGED <<manifest, clientHeaders, tools, last, idTokens>>

\* the awaited value is there: it is a string and is put into headers, or
\* callable throws
SettleOne(of, entries, headerName, next) ==
  LET e == entries[call.j]
      c == [call EXCEPT !.trace = Append(@, Event("done", of, e.k))]
  IN /\ call.pc = "await_" \o of
     /\ call' = IF call.rejected # {}
                THEN Throw(call, of \o "_rejected", <<>>, {}, e.k)
                ELSE IF call.cur.t # "string"
                THEN Throw(c, of \o "_not_string", <<>>, {}, e.k)
                ELSE [c EXCEPT !.pc = next.pc, !.j = next.j, !.cur = UNDEF,
                               !.headers = Spread(@, <<Entry(headerName, call.cur)>>)]
     /\ UNCHANGED <<manifest, clientHeaders, tools, fnState, last, idTokens>>

\* the loop over clientHeaders
StartHeader == StartOne("headers", "header", tools[call.recv].clientHeaders)

HeaderSettles ==
  LET t == tools[call.recv]
  IN SettleOne("header", t.clientHeaders, t.clientHeaders[call.j].k,
               AfterHeader(t, call.j))

\* the loop over authTokenGetters
StartToken == StartOne("tokens", "token", tools[call.recv].authTokenGetters)

TokenSettles ==
  LET t == tools[call.recv]
  IN SettleOne("token", t.authTokenGetters,
               GetAuthHeaderName(t.authTokenGetters[call.j].k),
               AfterToken(t, call.j))

\* the request of an invocation that got to the POST
Request(c) ==
  [url |-> tools[c.recv].toolName, body |-> c.payload[1],
   headers |-> AsObject(c.headers)]

\* session.post(toolUrl, filteredPayload, {headers})
Post ==
  /\ call.pc = "post"
  /\ call' = [call EXCEPT !.pc = "await_post",
                          !.trace = Append(@, Event("send", "post", ""))]
  /\ UNCHANGED <<manifest, clientHeaders, tools, fnState, last, idTokens>>

\* the transport answers
Responds(response) ==
  LET t == tools[call.recv]
  IN /\ call.pc = "await_post"
     /\ call' = [call EXCEPT
                   !.pc = "done",
                   !.out = IF response.ok
                           THEN Outcome("ok", <<>>, {}, "", <<Request(call)>>,
                                        ResponseResult(response), "", <<>>)
                           ELSE Outcome("transport", <<>>, {}, "", <<Request(call)>>,
                                        UNDEF, response.error,
                                        LogApiError("Error posting data to "
                                                    \o t.toolName, response))]
     /\ UNCHANGED <<manifest, clientHeaders, tools, fnState, last, idTokens>>

\* a tool without requirements and two client headers; a tool with authn
\* and authz requirements; a header provider that throws; a tool with
\* requirements and a header that is a number, before one that is a
\* function
StepDeployments ==
  {[manifest |-> Manifest(<<>>, <<>>),
    clientHeaders |-> <<Entry("X-Trace", Fn("tok")), Entry("X-Req", Fn("tok"))>>],
   [manifest |-> Manifest(<<"s1", "s2">>, <<"s2">>),
    clientHeaders |-> <<Entry("X-Trace", Fn("tok"))>>],
   [manifest |-> Manifest(<<>>, <<>>),
    clientHeaders |-> <<Entry("X-Trace", Fn("boom")), Entry("X-Req", Fn("tok"))>>],
   [manifest |-> Manifest(<<"s1", "s2">>, <<"s2">>),
    clientHeaders |-> <<Entry("X-Num", Lit(Num(5))), Entry("X-Req", Fn("tok"))>>]}

StepGetterMaps ==
  {<<>>,
   <<Getter("s1"), Getter("s2")>>,
   <<Getter("s1"), Entry("s2", Fn("ctr"))>>,
   <<Entry("s2", Fn("boom")), Getter("s1")>>}

\* bound values: functions, one that throws, a number and null for the
\* mandatory string
StepBindMaps ==
  {<<>>,
   <<Entry("num_rows", Fn("tok")), Entry("limit", Fn("ctr"))>>,
   <<Entry("num_rows", Fn("boom")), Entry("limit", Fn("ctr"))>>,
   <<Entry("num_rows", Lit(Num(5)))>>,
   <<Entry("num_rows", Lit(NULL)), Entry("limit", Lit(UNDEF))>>}

StepArgChoices ==
  {<<>>, [num_rows |-> Str(3)], [token |-> Str(3)], [limit |-> Str(3)],
   [num_rows |-> Str(3), token |-> Str(3)]}

InitSteps ==
  /\ \E d \in StepDeployments :
       manifest = d.manifest /\ clientHeaders = d.clientHeaders
  /\ tools = <<>>
  /\ fnState = [f \in Fns |-> 0]
  /\ last = Last("new", 0, 0, <<>>, <<>>, <<>>)
  /\ call = Idle
  /\ idTokens = NoIdTokens

NextSteps ==
  \/ \E g \in StepGetterMaps, b \in StepBindMaps : DoLoadTool(g, b)
  \/ \E i \in DOMAIN tools, a \in StepArgChoices : Begin(i, a)
  \/ CheckAuth
  \/ Validate
  \/ StartBoundParams
  \/ \E key \in call.pending : BoundSettles(key)
  \/ BoundRejects
  \/ AssemblePayload
  \/ StartHeader
  \/ HeaderSettles
  \/ StartToken
  \/ TokenSettles
  \/ Post
  \/ \E r \in PostAnswers : Responds(r)

SpecSteps == InitSteps /\ [][NextSteps]_vars

\* ------------------------------------- a parameter with two services
\* a server whose tool has one requirement, the parameter `token` that
\* accepts s1 and s2, and the headers of the client
GroupDeployments ==
  {[manifest |-> Manifest(<<"s1", "s2">>, <<>>), clientHeaders |-> <<>>],
   [manifest |-> Manifest(<<"s1", "s2">>, <<>>),
    clientHeaders |-> <<Entry("X-Trace", Fn("tok"))>>]}

InitGroup ==
  /\ \E d \in GroupDeployments :
       manifest = d.manifest /\ clientHeaders = d.clientHeaders
  /\ tools = <<>>
  /\ fnState = [f \in Fns |-> 0]
  /\ last = Last("new", 0, 0, <<>>, <<>>, <<>>)
  /\ call = Idle
  /\ idTokens = NoIdTokens

NextGroup ==
  \/ \E g \in GetterMaps : DoLoadTool(g, <<>>)
  \/ \E i \in DOMAIN tools, g \in GetterMaps \ {<<>>} : DoAddAuthTokenGetters(i, g)
  \/ \E i \in DOMAIN tools, a \in ArgChoices, r \in Responses \cup {NoResponse} :
       DoInvoke(i, a, r)

SpecGroup == InitGroup /\ [][NextGroup]_vars

\* ------------------------------------------------------ authMethods.ts
\* the ID token the provider gives for a URL
IdToken(url) == "id-token-for-" \o url

\* `Bearer ${id_token}`
Bearer(id_token) == "Bearer " \o id_token

\* a call of getGoogleIdToken: the promise it awaits (pc), the client it
\* asked for or took from the cache, what it returned or threw
TokenCall(url, pc, client, ok, result) ==
  [url |-> url, pc |-> pc, client |-> client, ok |-> ok, result |-> result]

\* let client = clientCache[url]
CachedClient(url) == idTokens.clientCache[url]

\* getGoogleIdToken(url) is called: it runs up to its first await, which is
\* auth.getIdTokenClient(url) when the cache has no client for the URL and
\* client.idTokenProvider.fetchIdToken(url) when it has
GetGoogleIdToken(url) ==
  LET client == CachedClient(url)
  IN /\ Len(idTokens.calls) < MaxCalls
     /\ idTokens' =
          IF client = 0
          THEN [idTokens EXCEPT
                  !.getIdTokenClient[url] = @ + 1,
                  !.calls = Append(@, TokenCall(url, "await_client",
                                                idTokens.getIdTokenClient[url] + 1,
                                                FALSE, ""))]
          ELSE [idTokens EXCEPT
                  !.fetchIdToken[url] = @ + 1,
                  !.calls = Append(@, TokenCall(url, "await_token", client,
                                                FALSE, ""))]
     /\ UNCHANGED <<manifest, clientHeaders, tools, fnState, last, call>>

\* auth.getIdTokenClient gives the client: clientCache[url] = client, then
\* fetchIdToken is called
ClientResolves(n) ==
  LET c == idTokens.calls[n]
  IN /\ c.pc = "await_client"
     /\ idTokens' = [idTokens EXCEPT
                       !.clientCache[c.url] = c.client,
                       !.created[c.url] = @ + 1,
                       !.fetchIdToken[c.url] = @ + 1,
                       !.calls[n].pc = "await_token"]
     /\ UNCHANGED <<manifest, clientHeaders, tools, fnState, last, call>>

\* auth.getIdTokenClient or fetchIdToken fails: the error is thrown
Rejects(n, error) ==
  LET c == idTokens.calls[n]
  IN /\ c.pc \in {"await_client", "await_token"}
     /\ idTokens' = [idTokens EXCEPT
                       !.calls[n] = TokenCall(c.url, "done", c.client, FALSE, error)]
     /\ UNCHANGED <<manifest, clientHeaders, tools, fnState, last, call>>

\* fetchIdToken gives the token
TokenResolves(n) ==
  LET c == idTokens.calls[n]
  IN /\ c.pc = "await_token"
     /\ idTokens' = [idTokens EXCEPT
                       !.calls[n] = TokenCall(c.url, "done", c.client, TRUE,
                                              Bearer(IdToken(c.url)))]
     /\ UNCHANGED <<manifest, clientHeaders, tools, fnState, last, call>>

InitAuth ==
  /\ manifest = Manifest(<<>>, <<>>)
  /\ clientHeaders = <<>>
  /\ tools = <<>>
  /\ fnState = [f \in Fns |-> 0]
  /\ last = Last("new", 0, 0, <<>>, <<>>, <<>>)
  /\ call = Idle
  /\ idTokens = NoIdTokens

NextAuth ==
  \/ \E url \in Urls : GetGoogleIdToken(url)
  \/ \E n \in DOMAIN idTokens.calls : ClientResolves(n)
  \/ \E n \in DOMAIN idTokens.calls : Rejects(n, "Failed to get ID token")
  \/ \E n \in DOMAIN idTokens.calls : TokenResolves(n)

SpecAuth == InitAuth /\ [][NextAuth]_vars

\* ------------------------------------------------------------ the claims
\* what the manifest says of the loaded tool
Tool == Get(manifest.tools, ToolName)

ParamNames == {Tool.parameters[i].name : i \in DOMAIN Tool.parameters}

PlainParamNames ==
  {Tool.parameters[i].name :
     i \in {j \in DOMAIN Tool.parameters : Tool.parameters[j].authSources = <<>>}}

AuthParamNames == ParamNames \ PlainParamNames

\* the services an instance still requires
StillRequired(t) ==
  UNION {Range(t.requiredAuthnParams[i].v) : i \in DOMAIN t.requiredAuthnParams}
  \cup Range(t.requiredAuthzTokens)

Incomplete(t) == t.requiredAuthnParams # <<>> \/ t.requiredAuthzTokens # <<>>

Ready(t) == ~Incomplete(t)

Count(s, x) == Cardinality({i \in DOMAIN s : s[i] = x})

IsDerivation(l) == l.op \in {"bindParams", "addAuthTokenGetters"}

\* C1: an invocation of an instance with an outstanding authn parameter or
\* authz token fails with the error that names every still-required service
\* exactly once, and sends no request, whatever the arguments.
C1_OutstandingAuthFails ==
  (last.op = "invoke" /\ Incomplete(tools[last.recv])) =>
    /\ last.out.outcome = "auth_required"
    /\ Range(last.out.services) = StillRequired(tools[last.recv])
    /\ Len(last.out.services) = Cardinality(StillRequired(tools[last.recv]))
    /\ last.out.request = <<>>

\* an instance that requires s2 twice (for a parameter and as authz token)
\* was invoked with valid arguments
C1_Witness ==
  /\ last.op = "invoke"
  /\ tools[last.recv].requiredAuthnParams = <<Entry("token", <<"s1", "s2">>)>>
  /\ tools[last.recv].requiredAuthzTokens = <<"s2">>
  /\ last.input = [num_rows |-> Str(3)]
  /\ last.out.services = <<"s1", "s2">>

BindAccepted(allowed) ==
  \A n \in KeySet(last.input) :
    n \notin KeySet(tools[last.recv].boundParams) /\ n \in allowed

\* C3 as stated: bindParams succeeds exactly when every name is unbound and
\* names a parameter of the tool.
C3_Original ==
  last.op = "bindParams" => (last.out.ok <=> BindAccepted(ParamNames))

\* C3: bindParams succeeds exactly when every name is unbound on the
\* receiver and names a parameter of the tool that declares no auth sources;
\* then the bound map of the new instance is the union of the receiver's map
\* and the supplied one, otherwise it throws and no instance is made.
C3_BindParams ==
  last.op = "bindParams" =>
    /\ last.out.ok <=> BindAccepted(PlainParamNames)
    /\ last.out.ok =>
         LET old == tools[last.recv].boundParams
             new == tools[last.idx].boundParams
         IN /\ IsMap(new)
            /\ KeySet(new) = KeySet(old) \cup KeySet(last.input)
            /\ \A n \in KeySet(old) : Get(new, n) = Get(old, n)
            /\ \A n \in KeySet(last.input) : Get(new, n) = Get(last.input, n)
    /\ ~last.out.ok =>
         /\ last.idx = 0
         /\ last.out.outcome \in {"rebind", "no_such_parameter"}

\* a second binding of num_rows, to another value, was rejected
C3_Witness ==
  /\ last.op = "bindParams"
  /\ ~last.out.ok
  /\ last.out.outcome = "rebind"
  /\ tools[last.recv].boundParams = <<Entry("num_rows", Lit(Str(3)))>>
  /\ last.input = <<Entry("num_rows", Fn("ctr"))>>

\* the value a bound entry resolves to in an invocation that starts with the
\* user functions in state st (no function is bound to two parameters)
ResolvedBound(e, st) ==
  IF e.kind = "fn" THEN FnReturn(e.fn, st[e.fn]) ELSE e.val

\* the call arguments overridden by the resolved bound values
Merged(t, a, st, key) ==
  IF key \in KeySet(t.boundParams) THEN ResolvedBound(Get(t.boundParams, key), st)
  ELSE a[key]

\* C4: the body of every request is the call arguments overridden by the
\* resolved bound values, without the keys whose value is null or undefined,
\* and a successful invocation returns the result field of the response.
C4_RequestBody ==
  [][(last'.op = "invoke" /\ last'.out.request # <<>>) =>
       LET t == tools[last'.recv]
           a == last'.input
           body == last'.out.request[1].body
       IN /\ DOMAIN body =
               {key \in DOMAIN a \cup KeySet(t.boundParams) :
                  Merged(t, a, fnState, key).t \notin {"null", "undefined"}}
          /\ \A key \in DOMAIN body : body[key] = Merged(t, a, fnState, key)
          /\ last'.out.outcome = "ok" =>
               last'.out.result = last'.response.data.result]_vars

\* num_rows is bound to "3", limit to null, and the call without arguments
\* sent exactly {num_rows: "3"} and returned the result of the response
C4_Witness ==
  /\ last.op = "invoke"
  /\ last.out.outcome = "ok"
  /\ last.input = <<>>
  /\ AsObject(tools[last.recv].boundParams) =
       [num_rows |-> Lit(Str(3)), limit |-> Lit(NULL)]
  /\ last.out.request[1].body = [num_rows |-> Str(3)]
  /\ last.out.result = Str(9)

\* the functions an instance calls in one invocation that resolves all its
\* values: bound values, client headers, token getters
FnUses(m, f) == Cardinality({i \in DOMAIN m : m[i].v.kind = "fn" /\ m[i].v.fn = f})

\* C5: an invocation that passes the auth check and the validation calls
\* each bound function once more (and, when it reaches the request, each
\* header and getter function once more), and the body carries the value
\* that call returned, which differs from the value of the previous call.
C5_ResolvedOnEveryCall ==
  [][(last'.op = "invoke"
      /\ last'.out.outcome \notin {"auth_required", "validation"}) =>
       LET t == tools[last'.recv]
           reached == last'.out.request # <<>>
       IN /\ Count(last'.out.called, "ctr") = FnUses(t.boundParams, "ctr")
          /\ fnState'["ctr"] =
               (fnState["ctr"] + FnUses(t.boundParams, "ctr")) % FnPeriod
          /\ reached =>
               /\ Count(last'.out.called, "tok") =
                    FnUses(t.clientHeaders, "tok") + FnUses(t.authTokenGetters, "tok")
               /\ \A i \in DOMAIN t.boundParams :
                    t.boundParams[i].v.kind = "fn" =>
                      /\ last'.out.request[1].body[t.boundParams[i].k] =
                           FnReturn(t.boundParams[i].v.fn, fnState[t.boundParams[i].v.fn])
                      /\ last'.out.request[1].body[t.boundParams[i].k] #
                           FnReturn(t.boundParams[i].v.fn, fnState'[t.boundParams[i].v.fn])]_vars

\* a later invocation of an instance with a bound function sent the value of
\* the function's second call
C5_Witness ==
  /\ last.op = "invoke"
  /\ last.out.outcome = "ok"
  /\ \E i \in DOMAIN tools[last.recv].boundParams :
       tools[last.recv].boundParams[i] = Entry("num_rows", Fn("ctr"))
  /\ last.out.request[1].body["num_rows"] = Num(1)
  /\ last.out.called[1] = "ctr"

\* the parameters a caller of instance t may supply, from the manifest
UserParams(t) ==
  {p \in Range(Tool.parameters) :
     p.authSources = <<>> /\ p.name \notin KeySet(t.boundParams)}

Expected(p) == IF p.type \in {"integer", "float"} THEN "number" ELSE p.type

Received(a, p) == IF p.name \in DOMAIN a THEN a[p.name].t ELSE "undefined"

\* mandatory and missing, or of the wrong type
Violated(t, a) ==
  {p \in UserParams(t) :
     /\ Received(a, p) # Expected(p)
     /\ ~(p.required = "false" /\ Received(a, p) \in {"null", "undefined"})}

Unknown(t, a) == DOMAIN a \ {p.name : p \in UserParams(t)}

ArgsInvalid(t, a) == Violated(t, a) # {} \/ Unknown(t, a) # {}

\* the last invocation failed with the validation error of the tool that
\* lists every violation, and sent no request
ValidationError ==
  LET t == tools[last.recv]
      a == last.input
  IN /\ last.out.outcome = "validation"
     /\ last.out.tool = ToolName
     /\ \A p \in Violated(t, a) :
          Issue(p.name, "invalid_type", Expected(p), Received(a, p), {})
            \in last.out.issues
     /\ Unknown(t, a) # {} =>
          Issue("payload", "unrecognized_keys", "", "", Unknown(t, a))
            \in last.out.issues
     /\ last.out.request = <<>>

\* C6 as stated: arguments that fail the validator always give the
\* validation error.
C6_Original ==
  (last.op = "invoke" /\ ArgsInvalid(tools[last.recv], last.input)) =>
    ValidationError

\* C6: on an instance without outstanding auth requirement, arguments with
\* a missing mandatory parameter, a value of the wrong type or a key that is
\* not user-suppliable give the error that is prefixed by the tool name and
\* lists every violated field with its reason, and no request is sent.
C6_ValidationFails ==
  (last.op = "invoke" /\ Ready(tools[last.recv])
   /\ ArgsInvalid(tools[last.recv], last.input)) =>
    ValidationError

\* a call without num_rows and with a string for limit was rejected with
\* both issues
C6_Witness ==
  /\ last.op = "invoke"
  /\ Ready(tools[last.recv])
  /\ last.input = [limit |-> Str(3)]
  /\ last.out.outcome = "validation"
  /\ {x.path : x \in last.out.issues} = {"num_rows", "limit"}

\* the functions called before the i-th entry of m is resolved, m being
\* resolved after `before` calls of f
Earlier(m, i, f) == FnUses(SubSeq(m, 1, i - 1), f)

\* the value the i-th getter of t returns in an invocation that starts with
\* the user functions in state st
TokenReturned(t, st, i) ==
  LET g == t.authTokenGetters[i].v
  IN IF g.kind = "lit" THEN g.val
     ELSE FnReturn(g.fn, (st[g.fn] + FnUses(t.boundParams, g.fn)
                          + FnUses(t.clientHeaders, g.fn)
                          + Earlier(t.authTokenGetters, i, g.fn)) % FnPeriod)

\* C7: a request carries, for each service registered on the instance, the
\* header <service>_token with the string its getter returned in this
\* invocation; an authenticated parameter is not in the body, and a call
\* that supplies one sends no request.
C7_AuthHeaders ==
  [][last'.op = "invoke" =>
       LET t == tools[last'.recv]
       IN /\ last'.out.request # <<>> =>
               /\ \A i \in DOMAIN t.authTokenGetters :
                    LET h == GetAuthHeaderName(t.authTokenGetters[i].k)
                    IN /\ h \in DOMAIN last'.out.request[1].headers
                       /\ last'.out.request[1].headers[h] = TokenReturned(t, fnState, i)
                       /\ last'.out.request[1].headers[h].t = "string"
               /\ DOMAIN last'.out.request[1].body \cap AuthParamNames = {}
          /\ DOMAIN last'.input \cap AuthParamNames # {} =>
               last'.out.request = <<>>]_vars

\* an instance with getters for s1 and s2 sent both tokens
C7_Witness ==
  /\ last.op = "invoke"
  /\ last.out.outcome = "ok"
  /\ Keys(tools[last.recv].authTokenGetters) = <<"s1", "s2">>
  /\ last.out.request[1].headers = [s1_token |-> Str(0), s2_token |-> Str(1)]
  /\ "token" \in AuthParamNames

\* the services supplied to the last loadTool or addAuthTokenGetters call
Supplied ==
  IF last.op = "loadTool" THEN KeySet(last.input[1]) ELSE KeySet(last.input)

Clash(services, headers) ==
  \E s \in services : GetAuthHeaderName(s) \in KeySet(headers)

AddAuthOutcome(mustThrow) ==
  LET t == tools[last.recv]
  IN /\ ~last.out.ok <=> mustThrow
     /\ ~last.out.ok => last.idx = 0
     /\ last.out.ok =>
          LET n == tools[last.idx]
          IN /\ IsMap(n.authTokenGetters)
             /\ AsObject(n.authTokenGetters) =
                  [s \in KeySet(t.authTokenGetters) \cup Supplied |->
                     IF s \in Supplied THEN Get(last.input, s)
                     ELSE Get(t.authTokenGetters, s)]
             /\ n.requiredAuthnParams =
                  SelectSeq(t.requiredAuthnParams,
                            LAMBDA e : Range(e.v) \cap Supplied = {})
             /\ n.requiredAuthzTokens =
                  SelectSeq(t.requiredAuthzTokens, LAMBDA z : z \notin Supplied)

AlreadyRegistered == Supplied \cap KeySet(tools[last.recv].authTokenGetters) # {}

Unjustified == \E s \in Supplied : s \notin StillRequired(tools[last.recv])

\* C9 as stated: addAuthTokenGetters throws exactly when a service is
\* already registered or satisfies no outstanding requirement.
C9_Original ==
  last.op = "addAuthTokenGetters" =>
    AddAuthOutcome(AlreadyRegistered \/ Unjustified)

\* C9: addAuthTokenGetters throws exactly when a supplied service is already
\* registered, or satisfies no outstanding requirement, or has the header
\* name of a client header; otherwise the new instance has the union of the
\* getters and the requirements the supplied services leave unsatisfied.
C9_AddAuthTokenGetters ==
  last.op = "addAuthTokenGetters" =>
    AddAuthOutcome(AlreadyRegistered \/ Unjustified
                   \/ Clash(Supplied, tools[last.recv].clientHeaders))

\* a getter for s1 satisfied the authenticated parameter and left the authz
\* token s2 outstanding
C9_Witness ==
  /\ last.op = "addAuthTokenGetters"
  /\ last.out.ok
  /\ last.input = <<Getter("s1")>>
  /\ tools[last.recv].requiredAuthnParams = <<Entry("token", <<"s1", "s2">>)>>
  /\ tools[last.idx].requiredAuthnParams = <<>>
  /\ tools[last.idx].requiredAuthzTokens = <<"s2">>

Requires(toolSchema) ==
  UNION {Range(p.authSources) : p \in Range(toolSchema.parameters)}
  \cup Range(toolSchema.authRequired)

Bindable(toolSchema) ==
  {p.name : p \in {q \in Range(toolSchema.parameters) : q.authSources = <<>>}}

\* the last call fetched a manifest
Fetched == last.response.ok /\ ManifestIssues(last.response.data) = {}

\* the last call was loadTool for a tool the fetched manifest has
LoadedNamedTool ==
  /\ last.op = "loadTool"
  /\ Fetched
  /\ last.input[3] \in KeySet(manifest.tools)

UnusedAuth(toolSchema) == KeySet(last.input[1]) \ Requires(toolSchema)

UnusedBound(toolSchema) == KeySet(last.input[2]) \ Bindable(toolSchema)

\* the error lists exactly these keys, each once
Lists(names, keys) == Range(names) = keys /\ Len(names) = Cardinality(keys)

\* loadTool returned exactly when `accepted`, and threw the validation error
\* with every unused key when `enumerated`
LoadToolOutcome(accepted, enumerated) ==
  LET schema == Get(manifest.tools, last.input[3])
  IN /\ last.out.ok <=> accepted
     /\ last.out.ok => tools = <<last.out.tool>>
     /\ ~last.out.ok => tools = <<>>
     /\ enumerated =>
          /\ last.out.outcome = "unused"
          /\ last.out.at = last.input[3]
          /\ Lists(last.out.names, UnusedAuth(schema))
          /\ Lists(last.out.bound, UnusedBound(schema))

AllUsed(toolSchema) == UnusedAuth(toolSchema) = {} /\ UnusedBound(toolSchema) = {}

\* C11 as stated: loadTool returns a tool exactly when every supplied key is
\* used, and otherwise throws the validation error.
C11_Original ==
  LoadedNamedTool =>
    LET schema == Get(manifest.tools, last.input[3])
    IN LoadToolOutcome(AllUsed(schema), ~AllUsed(schema))

\* C11: given a valid manifest with the tool, loadTool returns a tool
\* exactly when no supplied service has the header name of a client header,
\* every supplied service satisfies a requirement of the tool and every
\* bound key names a parameter without auth sources; with a header clash it
\* throws the naming-conflict error, otherwise one validation error that
\* lists every unused auth key and every unused bound key.
C11_LoadTool ==
  LoadedNamedTool =>
    LET schema == Get(manifest.tools, last.input[3])
        clash == Clash(KeySet(last.input[1]), clientHeaders)
    IN /\ LoadToolOutcome(~clash /\ AllUsed(schema), ~clash /\ ~AllUsed(schema))
       /\ clash => last.out.outcome = "header_conflict"

\* loadTool with getters for s1 and s2 and a value for the authenticated
\* parameter token threw, naming s2 and token
C11_Witness ==
  /\ LoadedNamedTool
  /\ last.input[3] = ToolName
  /\ Keys(last.input[1]) = <<"s1", "s2">>
  /\ last.out.outcome = "unused"
  /\ last.out.names = <<"s2">>
  /\ last.out.bound = <<"token">>

\* the last call was loadToolset in the given mode and fetched a manifest
ToolsetCall(strict) ==
  last.op = "loadToolset" /\ Fetched /\ last.input[3] = strict

\* the supplied keys that no tool of the manifest uses
UnusedAuthByAll ==
  KeySet(last.input[1])
  \ UNION {Requires(manifest.tools[i].v) : i \in DOMAIN manifest.tools}

UnusedBoundByAll ==
  KeySet(last.input[2])
  \ UNION {Bindable(manifest.tools[i].v) : i \in DOMAIN manifest.tools}

\* the call returned one instance per entry of the manifest, in its order
OnePerEntry ==
  /\ tools = last.out.tool
  /\ Len(tools) = Len(manifest.tools)
  /\ \A i \in DOMAIN tools : tools[i].toolName = manifest.tools[i].k

\* a supplied service has the header name of a client header, and there is
\* a tool to construct
ToolsetClash ==
  manifest.tools # <<>> /\ Clash(KeySet(last.input[1]), clientHeaders)

\* C12 as stated: the non-strict loadToolset fails exactly when a supplied
\* key is used by no tool.
C12_Original ==
  ToolsetCall(FALSE) =>
    /\ ~last.out.ok <=> (UnusedAuthByAll # {} \/ UnusedBoundByAll # {})
    /\ last.out.ok => OnePerEntry

\* C12: the non-strict loadToolset fails exactly when a supplied key is
\* used by no tool of the manifest, or the manifest has a tool and a
\* supplied service has the header name of a client header; a key one tool
\* uses is accepted, and a call that succeeds returns one instance per
\* manifest entry.
C12_NonStrict ==
  ToolsetCall(FALSE) =>
    /\ ~last.out.ok <=>
         (UnusedAuthByAll # {} \/ UnusedBoundByAll # {} \/ ToolsetClash)
    /\ last.out.ok => OnePerEntry
    /\ ~last.out.ok =>
         /\ tools = <<>>
         /\ IF ToolsetClash THEN last.out.outcome = "header_conflict"
            ELSE /\ last.out.outcome = "unused_by_all"
                 /\ Lists(last.out.names, UnusedAuthByAll)
                 /\ Lists(last.out.bound, UnusedBoundByAll)

\* a value for num_rows, a parameter of the first tool only, was accepted:
\* the first instance has it bound, the second has nothing bound
C12_Witness ==
  /\ ToolsetCall(FALSE)
  /\ last.out.ok
  /\ Keys(last.input[2]) = <<"num_rows">>
  /\ Len(tools) = 2
  /\ Keys(tools[1].boundParams) = <<"num_rows">>
  /\ tools[2].boundParams = <<>>

\* the entries of the manifest whose tool leaves a supplied key unused
LeavesUnused ==
  {i \in DOMAIN manifest.tools : ~AllUsed(manifest.tools[i].v)}

FirstLeavingUnused == CHOOSE i \in LeavesUnused : \A j \in LeavesUnused : i <= j

\* the error of the strict mode: it names the first tool that leaves a key
\* unused, and the keys that tool leaves unused
StrictError ==
  /\ ~last.out.ok
  /\ last.out.outcome = "unused"
  /\ last.out.at = manifest.tools[FirstLeavingUnused].k
  /\ Lists(last.out.names, UnusedAuth(manifest.tools[FirstLeavingUnused].v))
  /\ Lists(last.out.bound, UnusedBound(manifest.tools[FirstLeavingUnused].v))
  /\ tools = <<>>

\* C13 as stated: the strict loadToolset fails at the first tool that leaves
\* a supplied key unused, naming the tool and the keys, and succeeds only
\* if every tool uses every key.
C13_Original ==
  ToolsetCall(TRUE) =>
    /\ LeavesUnused # {} => StrictError
    /\ last.out.ok => LeavesUnused = {}

\* C13: when no supplied service has the header name of a client header,
\* the strict loadToolset fails at the first tool, in manifest order, that
\* leaves a supplied key unused, naming that tool and its unused keys, even
\* if another tool uses them; with such a header the construction of the
\* first tool throws the naming-conflict error; the call succeeds exactly
\* when neither happens.
C13_Strict ==
  ToolsetCall(TRUE) =>
    /\ ToolsetClash =>
         ~last.out.ok /\ last.out.outcome = "header_conflict"
                      /\ last.out.at = manifest.tools[1].k
    /\ (~ToolsetClash /\ LeavesUnused # {}) => StrictError
    /\ last.out.ok <=> (~ToolsetClash /\ LeavesUnused = {})
    /\ last.out.ok => OnePerEntry

\* a value for num_rows, which the first tool uses, made the strict call
\* fail at the second tool
C13_Witness ==
  /\ ToolsetCall(TRUE)
  /\ Keys(last.input[2]) = <<"num_rows">>
  /\ last.input[1] = <<>>
  /\ last.out.outcome = "unused"
  /\ last.out.at = SearchName
  /\ last.out.bound = <<"num_rows">>

OwnServices(t) == Requires(Get(manifest.tools, t.toolName))

\* the services whose token a request carries
TokensSent(t, request) ==
  {s \in KeySet(t.authTokenGetters) :
     GetAuthHeaderName(s) \in DOMAIN request.headers}

\* C15: every instance a load call returned holds getters only for the
\* services its own tool requires, and a request of an instance carries a
\* token header only for such a service.
C15_OnlyOwnServices ==
  /\ \A i \in DOMAIN tools :
       KeySet(tools[i].authTokenGetters) \subseteq OwnServices(tools[i])
  /\ (last.op = "invoke" /\ last.out.request # <<>>) =>
       TokensSent(tools[last.recv], last.out.request[1])
         \subseteq OwnServices(tools[last.recv])

IsLoad(l) == l.op \in {"loadTool", "loadToolset"}

\* the diagnostic of a failed request: the response body when there is one,
\* else the message of the error
Diagnostic(answer) == IF answer.data # <<>> THEN answer.data ELSE answer.error

C17_SchemaHidesBound ==
  \A i \in DOMAIN tools :
    KeySet(GetParamSchema(tools[i])) \cap KeySet(tools[i].boundParams) = {}

\* ------------------------------------- the claims on header values
\* a provider that gives a string: a literal string, or the function tok
GivesString(value) ==
  IF value.kind = "fn" THEN FnReturn(value.fn, 0).t = "string"
  ELSE value.val.t = "string"

\* the names of the entries that do not give a string, in order
NotStrings(m) == Keys(SelectSeq(m, LAMBDA x : ~GivesString(x.v)))

\* C18: an invocation that passes the auth check and the validation, on an
\* instance with a client header or a token getter that does not resolve to
\* a string, fails with the error that names it (the first such header,
\* else the first such service) and sends no request.
C18_NotAString ==
  (last.op = "invoke"
   /\ last.out.outcome \notin {"auth_required", "validation"}) =>
    LET t == tools[last.recv]
        headers == NotStrings(t.clientHeaders)
        services == NotStrings(t.authTokenGetters)
    IN /\ headers # <<>> =>
            /\ last.out.outcome = "header_not_string"
            /\ last.out.bad = headers[1]
            /\ last.out.request = <<>>
       /\ (headers = <<>> /\ services # <<>>) =>
            /\ last.out.outcome = "token_not_string"
            /\ last.out.bad = services[1]
            /\ last.out.request = <<>>
       /\ last.out.outcome \in {"header_not_string", "token_not_string"} =>
            headers \o services # <<>>

\* the getter of s2 returned a number: the invocation of the tool that
\* requires s2 failed naming s2
C18_Witness ==
  /\ last.op = "invoke"
  /\ last.out.outcome = "token_not_string"
  /\ last.out.bad = "s2"
  /\ last.out.called = <<"ctr">>
  /\ last.out.request = <<>>

\* ------------------------------------------ the claims on the manifest
\* the parameters of a body whose type is none of the six, as <<tool, index>>
WrongTypes(body) ==
  UNION {{<<body.tools[i].k, j>> :
            j \in {n \in DOMAIN body.tools[i].v.parameters :
                     body.tools[i].v.parameters[n].type \notin
                       {"string", "integer", "float", "boolean", "array",
                        "object"}}} : i \in DOMAIN body.tools}

\* the body is a manifest: a server version, and parameters of known types
Conforms(body) == body.serverVersion # "" /\ WrongTypes(body) = {}

\* C19: loadTool returns an instance only if the fetched body conforms to
\* the manifest schema and has the requested name among its tools; a body
\* that does not conform gives the error with the list of violations, a
\* missing name the not-found error, and neither constructs an instance.
C19_ManifestChecked ==
  (last.op = "loadTool" /\ last.response.ok) =>
    LET body == last.response.data
        name == last.input[3]
    IN /\ last.out.ok => (Conforms(body) /\ name \in KeySet(body.tools))
       /\ ~Conforms(body) =>
            /\ last.out.outcome = "invalid_manifest"
            /\ body.serverVersion = "" =>
                 \E x \in last.out.issues : x.path = <<"serverVersion">>
            /\ \A w \in WrongTypes(body) :
                 \E x \in last.out.issues :
                   x.path = <<"tools", w[1], "parameters", w[2], "type">>
            /\ tools = <<>>
       /\ (Conforms(body) /\ name \notin KeySet(body.tools)) =>
            /\ last.out.outcome = "not_found"
            /\ last.out.names = <<name>>
            /\ tools = <<>>

\* the body had a parameter of type date: loadTool threw with the issue at
\* that parameter's type
C19_Witness ==
  /\ last.op = "loadTool"
  /\ last.response.ok
  /\ last.out.outcome = "invalid_manifest"
  /\ {x.path : x \in last.out.issues} =
       {<<"tools", ToolName, "parameters", 1, "type">>}
  /\ tools = <<>>

\* ------------------------------------------ the claims on the translator
\* the one parameter of the tool
TheParam == Get(manifest.tools, ToolName).parameters[1]

\* the arguments give the parameter no value: null, undefined, or no key
NoValue(args) ==
  ValueName \notin DOMAIN args \/ args[ValueName].t \in {"null", "undefined"}

\* C20: whatever the type of a parameter, the validator made from it
\* accepts null, undefined and the omission of the key when the parameter
\* has required: false, and rejects all three, naming the parameter, when
\* required is absent or true.
C20_RequiredFalse ==
  (last.op = "parse" /\ NoValue(last.input)) =>
    /\ TheParam.required = "false" => last.out.issues = {}
    /\ TheParam.required \in {"absent", "true"} =>
         {x.path : x \in last.out.issues} = {ValueName}

\* an array parameter with required: false was given null and accepted
C20_Witness ==
  /\ last.op = "parse"
  /\ TheParam.type = "array"
  /\ TheParam.required = "false"
  /\ last.input = [key \in {ValueName} |-> NULL]
  /\ last.out.issues = {}

\* what the type of an object parameter says of a value: the value has the
\* type, the items of an array and the properties of an object with a type
\* for additionalProperties have that type, an object whose
\* additionalProperties is false has no property
RECURSIVE Matches(_, _)
Matches(typeSchema, val) ==
  CASE typeSchema.type = "string" -> val.t = "string"
    [] typeSchema.type \in {"integer", "float"} -> val.t = "number"
    [] typeSchema.type = "boolean" -> val.t = "boolean"
    [] typeSchema.type = "array" ->
         /\ val.t = "array"
         /\ \A i \in DOMAIN Items(val) : Matches(typeSchema.items[1], Items(val)[i])
    [] typeSchema.type = "object" ->
         /\ val.t = "object"
         /\ typeSchema.additionalProperties.is = "false" => Props(val) = <<>>
         /\ typeSchema.additionalProperties.is = "schema" =>
              \A i \in DOMAIN Props(val) :
                Matches(typeSchema.additionalProperties.schema[1], Props(val)[i].v)

\* an object was given for the parameter, which is of type object
ObjectGiven ==
  /\ last.op = "parse"
  /\ TheParam.type = "object"
  /\ ValueName \in DOMAIN last.input
  /\ last.input[ValueName].t = "object"

\* C21: an object given for a parameter of type object is accepted only if
\* every property matches the type of additionalProperties when that is a
\* type, only if it has no property when additionalProperties is false,
\* and always when additionalProperties is true or absent.
C21_ObjectProperties ==
  ObjectGiven =>
    LET val == last.input[ValueName]
        additional == TheParam.additionalProperties
        accepted == last.out.issues = {}
    IN /\ additional.is = "schema" =>
            (accepted =>
               \A i \in DOMAIN Props(val) :
                 Matches(additional.schema[1], Props(val)[i].v))
       /\ additional.is = "false" => (accepted => Props(val) = <<>>)
       /\ additional.is \in {"true", "absent"} => accepted

\* ------------------------------------------ the claims on the invocation
\* where in the trace of the invocation something was done
Where(at, of) ==
  {i \in DOMAIN call.trace : call.trace[i].at = at /\ call.trace[i].of \in of}

WhereKey(at, of, key) ==
  {i \in DOMAIN call.trace : call.trace[i] = Event(at, of, key)}

\* every resolution of the kinds `of` started before any of them completed
StartedTogether(of) ==
  \A i \in Where("start", of), j \in Where("done", of) : i < j

\* when the payload was assembled, the value of every key of m was there
CompleteAtPayload(of, m) ==
  \A i \in Where("assemble", {"payload"}) :
    \A key \in KeySet(m) : \E j \in WhereKey("done", of, key) : j < i

\* C22 as it is stated: the bound parameters and the client headers are
\* all started before any of them completes, and all have completed when
\* the payload is assembled.
C22_Original ==
  call.pc # "idle" =>
    /\ StartedTogether({"bound", "header"})
    /\ CompleteAtPayload("bound", tools[call.recv].boundParams)
    /\ CompleteAtPayload("header", tools[call.recv].clientHeaders)

\* C22: within one invocation the resolutions of all bound parameters are
\* started before any of them completes, and all have completed when the
\* payload is assembled; a client header is resolved after the payload is
\* assembled, and after the header before it has been resolved.
C22_BoundConcurrent ==
  call.pc # "idle" =>
    LET t == tools[call.recv]
    IN /\ StartedTogether({"bound"})
       /\ CompleteAtPayload("bound", t.boundParams)
       /\ \A n \in DOMAIN t.clientHeaders :
            \A i \in WhereKey("start", "header", t.clientHeaders[n].k) :
              /\ \E a \in Where("assemble", {"payload"}) : a < i
              /\ \A m \in 1..(n - 1) :
                   \E j \in WhereKey("done", "header", t.clientHeaders[m].k) : j < i

\* an invocation with two bound functions and two client headers was sent:
\* the second bound value was there before the first
C22_Witness ==
  /\ call.pc = "done"
  /\ call.out.outcome = "ok"
  /\ Keys(tools[call.recv].boundParams) = <<"num_rows", "limit">>
  /\ \E i \in WhereKey("done", "bound", "limit"),
        j \in WhereKey("done", "bound", "num_rows") : i < j
  /\ WhereKey("done", "header", "X-Req") # {}

\* the place of a step in callable
Rank(of) ==
  CASE of = "auth" -> 1
    [] of = "validate" -> 2
    [] of = "bound" -> 3
    [] of = "payload" -> 4
    [] of = "header" -> 5
    [] of = "token" -> 6
    [] of = "post" -> 7

\* every value of the map m was resolved
AllDone(of, m) == \A key \in KeySet(m) : WhereKey("done", of, key) # {}

\* C26: the steps of an invocation are taken in the order auth check,
\* validation, bound values, client headers, auth tokens, POST.  No
\* function is called when the auth check or the validation fails, no
\* token getter is called when a bound value or a client header fails, and
\* the POST is sent only when every step before it succeeded.
C26_StepOrder ==
  call.pc # "idle" =>
    LET t == tools[call.recv]
        failed == IF call.pc = "done" THEN call.out.outcome ELSE ""
    IN /\ \A i, j \in DOMAIN call.trace :
            i < j => Rank(call.trace[i].of) <= Rank(call.trace[j].of)
       /\ failed \in {"auth_required", "validation"} =>
            Where("start", {"bound", "header", "token"}) = {}
       /\ failed \in {"bound_rejected", "header_rejected", "header_not_string"} =>
            Where("start", {"token"}) = {}
       /\ failed \notin {"", "ok", "transport"} => Where("send", {"post"}) = {}
       /\ Where("send", {"post"}) # {} =>
            /\ WhereKey("check", "auth", "") # {}
            /\ WhereKey("check", "validate", "") # {}
            /\ t.requiredAuthnParams = <<>> /\ t.requiredAuthzTokens = <<>>
            /\ ParseIssues(UserParamSchema(t), call.args) = {}
            /\ AllDone("bound", t.boundParams)
            /\ AllDone("header", t.clientHeaders)
            /\ AllDone("token", t.authTokenGetters)
            /\ \A e \in Range(call.headers) : e.v.t = "string"

\* a header of an instance with token getters was not a string: the bound
\* functions were called and no getter was
C26_Witness ==
  /\ call.pc = "done"
  /\ call.out.outcome = "header_not_string"
  /\ tools[call.recv].authTokenGetters # <<>>
  /\ Where("start", {"bound"}) # {}
  /\ Where("start", {"token"}) = {}

\* what stops an invocation before the POST, bound values aside: an
\* outstanding requirement, call arguments that are not valid, a function
\* that throws, a header or a token that is not a string
Stopped(t, outcome) ==
  \/ outcome = "auth_required" /\ Incomplete(t)
  \/ outcome = "validation" /\ ArgsInvalid(t, call.args)
  \/ /\ outcome = "bound_rejected"
     /\ \E e \in Range(t.boundParams) : Throws(e.v)
  \/ outcome = "header_rejected" /\ \E e \in Range(t.clientHeaders) : Throws(e.v)
  \/ /\ outcome = "header_not_string"
     /\ \E e \in Range(t.clientHeaders) : ~Throws(e.v) /\ ~GivesString(e.v)
  \/ /\ outcome = "token_rejected"
     /\ \E e \in Range(t.authTokenGetters) : Throws(e.v)
  \/ /\ outcome = "token_not_string"
     /\ \E e \in Range(t.authTokenGetters) : ~Throws(e.v) /\ ~GivesString(e.v)

\* C27: a bound value is not checked against the schema of its parameter.
\* Whatever the bound values resolve to, the invocation fails validation
\* only for its call arguments and goes on to the POST; the body has every
\* bound key with the value it resolved to, of whatever type, except the
\* keys whose value is null or undefined, which it does not have.
C27_BoundNotValidated ==
  call.pc # "idle" =>
    LET t == tools[call.recv]
    IN /\ call.pc = "done" =>
            \/ call.out.outcome \in {"ok", "transport"}
            \/ Stopped(t, call.out.outcome)
       /\ call.payload # <<>> =>
            /\ KeySet(call.resolving) = KeySet(t.boundParams)
            /\ \A e \in Range(call.resolving) :
                 IF e.v.t \in {"null", "undefined"}
                 THEN e.k \notin DOMAIN call.payload[1]
                 ELSE e.k \in DOMAIN call.payload[1] /\ call.payload[1][e.k] = e.v
       /\ (call.pc = "done" /\ call.out.request # <<>>) =>
            call.out.request[1].body = call.payload[1]

\* the mandatory string was bound to null and the optional integer to
\* undefined: the request was sent without the two keys
C27_Witness ==
  /\ call.pc = "done"
  /\ call.out.outcome = "ok"
  /\ tools[call.recv].boundParams
       = <<Entry("num_rows", Lit(NULL)), Entry("limit", Lit(UNDEF))>>
  /\ DOMAIN call.out.request[1].body = {"token"}

\* ----------------------------------------------- the claims on matching
\* C23: identifyAuthRequirements returns as remaining authn parameters the
\* parameters none of whose services is available, each with its whole
\* list; as remaining authz tokens the required tokens that are not
\* available, in their order; as used services every available service of
\* every parameter and every available required token; whatever the order
\* the parameters and the available names are iterated in.
C23_Matcher ==
  last.op = "identifyAuthRequirements" =>
    LET reqAuthnParams == last.input[1]
        reqAuthzTokens == last.input[2]
        available == Range(last.input[3])
        unmatched == {key \in KeySet(reqAuthnParams) :
                        Range(Get(reqAuthnParams, key)) \cap available = {}}
    IN /\ IsMap(last.out.requiredAuthnParams)
       /\ AsObject(last.out.requiredAuthnParams)
            = [key \in unmatched |-> Get(reqAuthnParams, key)]
       /\ last.out.remainingAuthzTokens
            = SelectSeq(reqAuthzTokens, LAMBDA token : token \notin available)
       /\ last.out.usedServices
            = (UNION {Range(reqAuthnParams[i].v) \cap available :
                        i \in DOMAIN reqAuthnParams})
              \cup (Range(reqAuthzTokens) \cap available)

\* a parameter with two available services, a parameter with none, one
\* token available and one not, the inputs iterated in another order
C23_Witness ==
  /\ last.op = "identifyAuthRequirements"
  /\ last.input = <<<<Entry("token", <<"s1", "s2">>), Entry("user", <<"s3">>)>>,
                    <<"s3", "s1">>, <<"s1", "s2">>>>
  /\ last.response[1] # last.input[1]
  /\ last.response[3] # last.input[3]
  /\ last.out.usedServices = {"s1", "s2"}
  /\ last.out.requiredAuthnParams = <<Entry("user", <<"s3">>)>>
  /\ last.out.remainingAuthzTokens = <<"s3">>

\* --------------------------------------------- the claims on ID tokens
\* the calls for a URL that got as far as asking for the token
AskedForToken(url) ==
  {n \in DOMAIN idTokens.calls :
     /\ idTokens.calls[n].url = url
     /\ \/ idTokens.calls[n].pc = "await_token"
        \/ idTokens.calls[n].pc = "done" /\ idTokens.calls[n].ok}

\* C24: whatever the number of calls of getGoogleIdToken for a URL, one
\* after the other or overlapping, at most one ID-token client is made for
\* the URL and every call uses it; the token is fetched by every call and
\* returned as Bearer <token>.
C24_ClientMadeOnce ==
  \A url \in Urls :
    /\ idTokens.created[url] <= 1
    /\ \A n, m \in AskedForToken(url) :
         idTokens.calls[n].client = idTokens.calls[m].client
    /\ idTokens.fetchIdToken[url] >= Cardinality(AskedForToken(url))
    /\ \A n \in AskedForToken(url) :
         idTokens.calls[n].pc = "done" =>
           idTokens.calls[n].result = Bearer(IdToken(url))

\* ------------------------------------------ the claims on requirements
\* the getters registered with an instance
Registered(t) == KeySet(t.authTokenGetters)

\* the authenticated parameters of the tool in the manifest, with their
\* auth sources
Authenticated ==
  LET ps == SelectSeq(Tool.parameters, LAMBDA p : p.authSources # <<>>)
  IN [i \in DOMAIN ps |-> Entry(ps[i].name, ps[i].authSources)]

\* every requirement of the tool is covered by a registered getter
Covered(t) ==
  /\ \A i \in DOMAIN Authenticated :
       Range(Authenticated[i].v) \cap Registered(t) # {}
  /\ Range(Tool.authRequired) \subseteq Registered(t)

\* C25: the outstanding requirements an instance holds, built by the
\* client and derived by addAuthTokenGetters and bindParams, are those of
\* the manifest that its registered getters do not cover: the
\* authenticated parameters none of whose auth sources is registered, and
\* the entries of authRequired that are not registered; the instance is
\* Ready exactly when every requirement is covered.
C25_RequirementsFromManifest ==
  \A i \in DOMAIN tools :
    LET t == tools[i]
    IN /\ t.requiredAuthnParams
            = SelectSeq(Authenticated,
                        LAMBDA e : Range(e.v) \cap Registered(t) = {})
       /\ t.requiredAuthzTokens
            = SelectSeq(Tool.authRequired, LAMBDA s : s \notin Registered(t))
       /\ Ready(t) <=> Covered(t)

\* an instance loaded with the getter of s1, which the parameter accepts,
\* was given the getter of s2, which the tool requires, and is Ready
C25_Witness ==
  /\ last.op = "addAuthTokenGetters"
  /\ last.out.ok
  /\ Authenticated # <<>>
  /\ Tool.authRequired # <<>>
  /\ Incomplete(tools[last.recv])
  /\ Registered(tools[last.recv]) = {"s1"}
  /\ Registered(tools[last.idx]) = {"s1", "s2"}
  /\ Ready(tools[last.idx])

\* ------------------------------------------------ the claims on grouping
\* the tool has one requirement: the parameter that accepts s1 and s2
OnlyTokenRequired ==
  /\ Tool.authRequired = <<>>
  /\ \A i \in DOMAIN Tool.parameters :
       Tool.parameters[i].authSources
         = IF Tool.parameters[i].name = "token" THEN <<"s1", "s2">> ELSE <<>>

BothGetters == <<Getter("s1"), Getter("s2")>>

\* the two getters are registered and nothing is outstanding
BothRegistered(r) ==
  /\ r.ok
  /\ Keys(r.tool.authTokenGetters) = <<"s1", "s2">>
  /\ r.tool.requiredAuthnParams = <<>>
  /\ r.tool.requiredAuthzTokens = <<>>

\* C28: for a tool whose only requirement is a parameter that accepts s1
\* and s2, the getters of s1 and s2 given together, to loadTool or to one
\* addAuthTokenGetters on an instance that has none, are both registered;
\* a getter for the other service given to an instance that has one of
\* the two is refused as unused, the parameter being no longer outstanding.
C28_Grouping ==
  [][OnlyTokenRequired =>
       /\ (last'.op = "loadTool" /\ last'.input[1] = BothGetters)
            => BothRegistered(last'.out)
       /\ ( /\ last'.op = "addAuthTokenGetters"
            /\ tools[last'.recv].authTokenGetters = <<>>
            /\ last'.input = BothGetters )
            => BothRegistered(last'.out)
       /\ \A s \in {"s1", "s2"} :
            ( /\ last'.op = "addAuthTokenGetters"
              /\ Keys(tools[last'.recv].authTokenGetters) = <<s>>
              /\ Keys(last'.input) \in {<<"s1">>, <<"s2">>} \ {<<s>>} )
            => /\ tools[last'.recv].requiredAuthnParams = <<>>
               /\ ~last'.out.ok
               /\ last'.out.outcome = "auth_unused"
               /\ last'.out.names = Keys(last'.input)]_vars

\* s1 was added to the loaded instance, and then s2 to the instance that
\* call returned: the second call threw
C28_Witness ==
  /\ OnlyTokenRequired
  /\ Len(tools) = 2
  /\ tools[1].authTokenGetters = <<>>
  /\ Keys(tools[2].authTokenGetters) = <<"s1">>
  /\ last.op = "addAuthTokenGetters"
  /\ last.recv = 2
  /\ Keys(last.input) = <<"s2">>
  /\ last.out.outcome = "auth_unused"

\* ------------------------------------------- the claims on the two modes
\* C29: strict mode is at least as restrictive as the other mode.  When
\* loadToolset returns with strict = true, loadToolset with strict = false
\* returns as well for the same manifest, getters and bound parameters, a
\* manifest without tools included.
C29_StrictAtLeast ==
  [][( /\ last'.op = "loadToolset"
       /\ last'.input[3]
       /\ last'.out.ok )
     => \A n \in ToolsetNames :
          LoadToolsetCall(clientHeaders, n, last'.input[1], last'.input[2],
                          FALSE, fnState, last'.response).ok]_vars

\* ----------------------------------- the claims on the time of binding
\* the instance loadTool returns when it is given the getters and the
\* bound parameters of t
BoundAtLoad(t) ==
  LoadTool(manifest, clientHeaders, ToolName, t.authTokenGetters, t.boundParams)

\* the instance bindParams returns for the bound parameters of t, on the
\* instance loadTool returns when it is given the getters of t only
BoundAfterLoad(t) ==
  LET loaded == LoadTool(manifest, clientHeaders, ToolName, t.authTokenGetters, <<>>)
  IN IF loaded.ok THEN BindParams(loaded.tool, t.boundParams) ELSE loaded

\* t has one bound parameter, a plain one, and is the instance of one of
\* the two ways of binding it
BoundEitherWay(t) ==
  /\ Len(t.boundParams) = 1
  /\ t.boundParams[1].k \in PlainParamNames
  /\ LET atLoad == BoundAtLoad(t)
         after == BoundAfterLoad(t)
     IN /\ atLoad.ok
        /\ after.ok
        /\ t \in {atLoad.tool, after.tool}

\* the states the functions of the user can be in
FnStates == [Fns -> 0 .. FnPeriod - 1]

\* C30: binding a plain parameter p when the tool is loaded and binding it
\* on the loaded tool give instances that cannot be told apart by invoking
\* them: for the same arguments, from the same state of the functions, an
\* invocation of either has the outcome, the POST body and the result the
\* other has, which is what the invocation that was made returned; and
\* bindParams with p throws on both, as a re-binding when p is the
\* parameter to bind.
C30_LoadOrAfter ==
  ( /\ last.op \in {"invoke", "bindParams"}
    /\ BoundEitherWay(tools[last.recv]) ) =>
    LET atLoad == BoundAtLoad(tools[last.recv]).tool
        after == BoundAfterLoad(tools[last.recv]).tool
        p == tools[last.recv].boundParams[1].k
    IN /\ last.op = "invoke" =>
            /\ \A st \in FnStates :
                 Callable(atLoad, last.input, st, last.response)
                   = Callable(after, last.input, st, last.response)
            /\ \E st \in FnStates :
                 Callable(atLoad, last.input, st, last.response) = last.out
       /\ (last.op = "bindParams" /\ p \in KeySet(last.input)) =>
            /\ ~last.out.ok
            /\ BindParams(atLoad, last.input) = last.out
            /\ BindParams(after, last.input) = last.out
            /\ Keys(last.input) = <<p>> =>
                 last.out.outcome = "rebind" /\ last.out.names = <<p>>

\* the mandatory string was bound on the loaded tool, and the instance was
\* invoked without it: the request was sent
C30_Witness ==
  /\ last.op = "invoke"
  /\ last.recv = 2
  /\ tools[1].boundParams = <<>>
  /\ BoundEitherWay(tools[2])
  /\ Keys(tools[2].boundParams) = <<"num_rows">>
  /\ "num_rows" \in KeySet(tools[2].params)
  /\ "num_rows" \notin KeySet(BoundAtLoad(tools[2]).tool.params)
  /\ "num_rows" \notin DOMAIN last.input
  /\ last.out.outcome = "ok"

====
